---- MODULE Spec2Model ----
(***************************************************************************)
(* Attack-flow graph to Bayesian-network compiler:                         *)
(*   AttackFlowProcessor.process_file  (bn_creator/attack_flow_parser.py)  *)
(*   GroupingUtil                      (bn_creator/grouping_util.py)       *)
(*   FuzzyBNBuilder                    (bn_creator/fuzzy_bn_integration.py)*)
(* Probabilities are exact rationals: a CPT row is a record                *)
(* [p |-> numerators, d |-> denominator].                                  *)
(***************************************************************************)
EXTENDS Integers, Sequences, FiniteSets, TLC

VARIABLES
    \* ---- GroupingUtil.partition_parents, run on its own (SpecPart)
    pp_pc,          \* position inside partition_parents
    pp_parents,     \* argument `parents`
    pp_max,         \* self.max_size
    pp_buckets,     \* `buckets`: insertion-ordered list of [key, members]
    pp_chunks,      \* `groups` as it stood when the chunking loop ended
    pp_groups,      \* `groups`
    \* ---- the compilation pipeline (Spec)
    pc,             \* position of the pipeline
    id_to_obj,      \* bundle objects: id -> [type, tactic_id, ctype]
    in_edges,       \* graph_edges of process_file, in extraction order
    sim_output,     \* defuzzified output of the external rule engine
    parent_map, child_map, all_nodes, condition_nodes,
    recommendations,
    used_ids, graph_edges,
    partition_groups, divorce_groups, logic_groups,
    net,            \* the pysmile.Network under construction
    log,            \* history of the build: phases entered, CPT assignments
    \* ---- one call of get_fuzzy_membership_distribution (SpecFuzzy)
    fz_pc,          \* position inside the call
    fz_tactic,      \* tactic_id
    fz_system,      \* tactic_systems[tactic_id]: "ready", or "none" when creating it failed
    fz_params,      \* **fuzzy_params: name -> value
    fz_input,       \* sim.input: name -> value
    fz_engine,      \* what the rule engine did in this call
    fz_result,      \* the list returned
    \* ---- recommendations and logic groups of a graph with operators (SpecLogic)
    lg_pc,          \* position: process_file, get_logic_groups, done
    lg_conds,       \* condition_nodes: id -> kind string
    lg_edges,       \* graph_edges
    lg_recs,        \* recommendations
    lg_groups,      \* the list get_logic_groups returns
    \* ---- _layout_network after partition_parents, loop by loop (SpecTerminates)
    ly_pc,          \* position inside _layout_network
    ly_edges,       \* self.graph_edges
    ly_arcs,        \* `arcs`
    ly_ids,         \* `all_ids`
    ly_queue,       \* `q`: pairs <<nid, d>>
    ly_level,       \* `level`: nid -> d
    \* ---- the evidence web service, flask_app/bn-ws.py (SpecWs)
    ws_pc,          \* "off", or "serving" once the service has started
    ws_file_exists, \* whether model_path names a readable file
    ws_net,         \* `net`: [nodes: nid -> outcome count, ev: nid -> state]
    ws_node_info,   \* `node_info`: nid -> [type, states]
    ws_current,     \* `current_evidence`: nid -> value
    ws_last,        \* the last request served
    ws_count        \* requests served

ppvars == <<pp_pc, pp_parents, pp_max, pp_buckets, pp_chunks, pp_groups>>
plvars == <<pc, id_to_obj, in_edges, sim_output, parent_map, child_map, all_nodes,
            condition_nodes, recommendations, used_ids, graph_edges,
            partition_groups, divorce_groups, logic_groups, net, log>>
fzvars == <<fz_pc, fz_tactic, fz_system, fz_params, fz_input, fz_engine, fz_result>>
lgvars == <<lg_pc, lg_conds, lg_edges, lg_recs, lg_groups>>
lyvars == <<ly_pc, ly_edges, ly_arcs, ly_ids, ly_queue, ly_level>>
wsvars == <<ws_pc, ws_file_exists, ws_net, ws_node_info, ws_current, ws_last, ws_count>>
auxvars == <<lgvars, lyvars, wsvars>>
vars == <<ppvars, plvars, fzvars, auxvars>>

----------------------------------------------------------------------------
\* Bounds of the model
MaxParents == 5      \* longest parent list handed to partition_parents in SpecPart
MaxSizeBound == 3    \* largest max_size tried in SpecPart
MaxEdges == 6        \* most edges of an input graph
MaxTermParents == 3  \* longest parent list of t-1 in SpecTerminates
MaxRequests == 3     \* most requests served in SpecWs

\* GroupingUtil.__init__: max_size=3
DefaultMaxSize == 3

----------------------------------------------------------------------------
\* Generic helpers on sequences
RECURSIVE SumSeq(_)
SumSeq(s) == IF s = <<>> THEN 0 ELSE Head(s) + SumSeq(Tail(s))

RECURSIVE Flatten(_)
Flatten(ss) == IF ss = <<>> THEN <<>> ELSE Head(ss) \o Flatten(Tail(ss))

Range(s) == {s[i] : i \in DOMAIN s}

Count(s, x) == Cardinality({i \in DOMAIN s : s[i] = x})

NoRepeat(s) == \A i, j \in DOMAIN s : s[i] = s[j] => i = j

Min2(a, b) == IF a < b THEN a ELSE b
Max2(a, b) == IF a > b THEN a ELSE b

\* every sequence over S of length at most n
SeqsUpTo(S, n) == UNION {[1..k -> S] : k \in 0..n}

----------------------------------------------------------------------------
\* Node ids.  A STIX id is "<type>--<uuid>"; an id is modelled as the sequence
\* of its characters, so that safe() really rewrites it.
S1 == <<"s", "-", "1">>
S2 == <<"s", "-", "2">>
S3 == <<"s", "-", "3">>
M  == <<"m", "-", "1">>
T1 == <<"t", "-", "1">>
T2 == <<"t", "-", "2">>
T3 == <<"t", "-", "3">>
NodeIds == {S1, S2, S3, M, T1, T2, T3}

\* safe = lambda x: x.replace("-", "_")
Safe(x) == [i \in DOMAIN x |-> IF x[i] = "-" THEN "_" ELSE x[i]]

\* f"{parent}_grp{idx}" and f"{parent}_div"
GrpId(parent, idx) == parent \o <<"_", "g", "r", "p", ToString(idx)>>
DivId(parent) == parent \o <<"_", "d", "i", "v">>

----------------------------------------------------------------------------
\* Bundle objects.  tactic_id = "" and ctype = "" stand for an absent attribute.
Obj(type, tactic, ctype) == [type |-> type, tactic_id |-> tactic, ctype |-> ctype]

\* getattr(obj, self.bucket_key, 'UNKNOWN') if obj else 'UNKNOWN'
BucketKey(objs, pid) ==
    IF pid \in DOMAIN objs /\ objs[pid].tactic_id # ""
    THEN objs[pid].tactic_id ELSE "UNKNOWN"

----------------------------------------------------------------------------
\* GroupingUtil.partition_parents

\* buckets[key].append(pid), for pid in parents: a dict keeps its keys in
\* insertion order
RECURSIVE AddToBucket(_, _, _)
AddToBucket(buckets, key, pid) ==
    IF buckets = <<>> THEN << [key |-> key, members |-> <<pid>>] >>
    ELSE IF Head(buckets).key = key
         THEN << [key |-> key, members |-> Append(Head(buckets).members, pid)] >>
              \o Tail(buckets)
         ELSE << Head(buckets) >> \o AddToBucket(Tail(buckets), key, pid)

RECURSIVE BucketsOf(_, _, _)
BucketsOf(objs, parents, acc) ==
    IF parents = <<>> THEN acc
    ELSE BucketsOf(objs, Tail(parents),
                   AddToBucket(acc, BucketKey(objs, Head(parents)), Head(parents)))

\* members[i:i + max_size] for i in range(0, len(members), max_size)
ChunksKeepWhole(members, max) == IF members = <<>> THEN <<>> ELSE << members >>
RECURSIVE ChunksOf(_, _)
ChunksOf(members, max) ==
    IF members = <<>> THEN <<>>
    ELSE IF Len(members) <= max THEN << members >>
    ELSE << SubSeq(members, 1, max) >> \o ChunksOf(SubSeq(members, max + 1, Len(members)), max)

RECURSIVE ChunkAll(_, _)
ChunkAll(buckets, max) ==
    IF buckets = <<>> THEN <<>>
    ELSE ChunksOf(Head(buckets).members, max) \o ChunkAll(Tail(buckets), max)

\* sorted(groups, key=len): a stable sort
RECURSIVE InsertByLen(_, _)
InsertByLen(sorted, g) ==
    IF sorted = <<>> THEN << g >>
    ELSE IF Len(g) < Len(Head(sorted)) THEN << g >> \o sorted
    ELSE << Head(sorted) >> \o InsertByLen(Tail(sorted), g)

RECURSIVE SortedByLen(_, _)
SortedByLen(groups, acc) ==
    IF groups = <<>> THEN acc
    ELSE SortedByLen(Tail(groups), InsertByLen(acc, Head(groups)))

\* one pass of the while loop: sort, pop the two first, append their join
MergeDropsSecond(groups) ==
    LET s == SortedByLen(groups, <<>>)
    IN  Append(SubSeq(s, 3, Len(s)), s[1])
MergeKeepsCount(groups) ==
    LET s == SortedByLen(groups, <<>>)
    IN  Append(SubSeq(s, 2, Len(s)), s[1])
MergeStep(groups) ==
    LET s == SortedByLen(groups, <<>>)
    IN  Append(SubSeq(s, 3, Len(s)), s[1] \o s[2])

RECURSIVE MergeLoop(_, _)
MergeLoop(groups, max) ==
    IF Len(groups) > max THEN MergeLoop(MergeStep(groups), max) ELSE groups

PartitionParents(objs, parents, max) ==
    MergeLoop(ChunkAll(BucketsOf(objs, parents, <<>>), max), max)

----------------------------------------------------------------------------
\* Object registries the model draws its inputs from.  M is the node whose kind
\* varies: an action, an operator (AND, OR, another kind string) or a condition.
NoTactic == [n \in NodeIds |-> ""]
SomeTactics == [n \in NodeIds |->
    CASE n = S1 -> "TA0001" [] n = S2 -> "TA0002" [] n = T1 -> "TA0043" [] OTHER -> ""]
\* an operator that carries a tactic, and a tactic code outside the known set
OddTactics == [n \in NodeIds |->
    CASE n = M -> "TA0002" [] n = S1 -> "TA0001" [] n = T2 -> "TA9999" [] OTHER -> ""]

Registry(mtype, mctype, tacs) ==
    [n \in NodeIds |-> Obj(IF n = M THEN mtype ELSE "attack-action", tacs[n],
                           IF n = M THEN mctype ELSE "")]

Registries ==
    { Registry("attack-action", "", NoTactic),
      Registry("attack-operator", "AND", NoTactic),
      Registry("attack-operator", "AND", SomeTactics),
      Registry("attack-operator", "OR", SomeTactics),
      Registry("attack-operator", "XOR", NoTactic),
      Registry("attack-condition", "", SomeTactics),
      Registry("attack-operator", "AND", OddTactics),
      Registry("attack-operator", "OR", OddTactics) }

----------------------------------------------------------------------------
\* partition_parents step by step (SpecPart)
PartIds == {S1, S2, S3, M}

FuzzyOff ==
    /\ fz_pc = "off" /\ fz_tactic = "" /\ fz_system = ""
    /\ fz_params = <<>> /\ fz_input = <<>> /\ fz_engine = <<>> /\ fz_result = <<>>

LogicOff ==
    /\ lg_pc = "off" /\ lg_conds = <<>> /\ lg_edges = <<>> /\ lg_recs = <<>> /\ lg_groups = <<>>

LayoutOff ==
    /\ ly_pc = "off" /\ ly_edges = <<>> /\ ly_arcs = <<>> /\ ly_ids = {}
    /\ ly_queue = <<>> /\ ly_level = <<>>

WsOff ==
    /\ ws_pc = "off" /\ ws_file_exists = FALSE /\ ws_net = <<>> /\ ws_node_info = <<>>
    /\ ws_current = <<>> /\ ws_last = <<>> /\ ws_count = 0

AuxOff == LogicOff /\ LayoutOff /\ WsOff

PipelineOff ==
    /\ pc = "off"
    /\ in_edges = <<>> /\ sim_output = <<>>
    /\ parent_map = <<>> /\ child_map = <<>> /\ all_nodes = {} /\ condition_nodes = <<>>
    /\ recommendations = <<>> /\ used_ids = {} /\ graph_edges = <<>>
    /\ partition_groups = <<>> /\ divorce_groups = <<>> /\ logic_groups = <<>>
    /\ net = <<>> /\ log = <<>>

InitPart ==
    /\ pp_pc = "bucket"
    /\ pp_parents \in SeqsUpTo(PartIds, MaxParents)
    /\ pp_max \in 1..MaxSizeBound
    /\ pp_buckets = <<>> /\ pp_chunks = <<>> /\ pp_groups = <<>>
    /\ id_to_obj \in {Registry("attack-action", "", NoTactic),
                      Registry("attack-action", "", SomeTactics)}
    /\ PipelineOff
    /\ FuzzyOff
    /\ AuxOff

\* lines 19-23
PPBucket ==
    /\ pp_pc = "bucket"
    /\ pp_buckets' = BucketsOf(id_to_obj, pp_parents, <<>>)
    /\ pp_pc' = "chunk"
    /\ UNCHANGED <<pp_parents, pp_max, pp_chunks, pp_groups, plvars, fzvars, auxvars>>

\* lines 25-28
PPChunk ==
    /\ pp_pc = "chunk"
    /\ pp_groups' = ChunkAll(pp_buckets, pp_max)
    /\ pp_chunks' = pp_groups'
    /\ pp_pc' = "merge"
    /\ UNCHANGED <<pp_parents, pp_max, pp_buckets, plvars, fzvars, auxvars>>

\* lines 30-34, one pass
PPMerge ==
    /\ pp_pc = "merge"
    /\ Len(pp_groups) > pp_max
    /\ pp_groups' = MergeStep(pp_groups)
    /\ UNCHANGED <<pp_pc, pp_parents, pp_max, pp_buckets, pp_chunks, plvars, fzvars, auxvars>>

\* line 36
PPReturn ==
    /\ pp_pc = "merge"
    /\ ~(Len(pp_groups) > pp_max)
    /\ pp_pc' = "done"
    /\ UNCHANGED <<pp_parents, pp_max, pp_buckets, pp_chunks, pp_groups, plvars, fzvars, auxvars>>

NextPart == PPBucket \/ PPChunk \/ PPMerge \/ PPReturn

SpecPart == InitPart /\ [][NextPart]_vars

----------------------------------------------------------------------------
\* Conditional probability tables.  A table is a sequence of rows, one per
\* combination of parent states, in the order of the flat list the code hands
\* to set_node_definition; a row [p, d] holds the probabilities p[i] / d.
Row(p, d) == [p |-> p, d |-> d]

RECURSIVE Product(_)
Product(cards) == IF cards = <<>> THEN 1 ELSE Head(cards) * Product(Tail(cards))

\* temp = combo; for states in parent_info: append(temp % states); temp //= states
RECURSIVE DecodeRow(_, _)
DecodeRow(combo, cards) ==
    IF cards = <<>> THEN <<>>
    ELSE << combo % Head(cards) >> \o DecodeRow(combo \div Head(cards), Tail(cards))

\* a parent state on the scale 0..4: state / (num_states - 1), in quarters
\* (a binary parent gives 0 or 4, a 5-state parent its index)
Quarters(state, card) == IF card = 2 THEN 4 * state ELSE state

RECURSIVE MinActivation(_, _, _)
MinActivation(vals, cards, acc) ==
    IF vals = <<>> THEN acc
    ELSE MinActivation(Tail(vals), Tail(cards),
                       Min2(acc, Quarters(Head(vals), Head(cards))))

RECURSIVE TotalInfluence(_, _)
TotalInfluence(vals, cards) ==
    IF vals = <<>> THEN 0
    ELSE Quarters(Head(vals), Head(cards)) + TotalInfluence(Tail(vals), Tail(cards))

\* build, lines 466-492: the AND table over the members' cardinalities
AndRow(cards, combo) ==
    LET m == MinActivation(DecodeRow(combo, cards), cards, 4)
    IN  Row(<<4 - m, m>>, 4)

AndTable(cards) == [r \in 1..Product(cards) |-> AndRow(cards, r - 1)]

\* build, lines 581-632: the table of a divorce child, from the hub's value
HubLow5 == Row(<<40, 30, 20, 8, 2>>, 100)
HubHigh5 == Row(<<2, 8, 20, 30, 40>>, 100)
HubLow2 == Row(<<1, 0>>, 1)
HubHigh2 == Row(<<0, 1>>, 1)

DivorceRow(cards, hub_index, child_states, combo) ==
    LET hub_value == DecodeRow(combo, cards)[hub_index]
    IN  IF child_states = 5
        THEN (IF hub_value = 0 THEN HubLow5 ELSE HubHigh5)
        ELSE (IF hub_value = 0 THEN HubLow2 ELSE HubHigh2)

DivorceTable(cards, hub_index, child_states) ==
    [r \in 1..Product(cards) |-> DivorceRow(cards, hub_index, child_states, r - 1)]

\* _set_default_cpt, lines 300-373
DefaultPrior2 == Row(<<7, 3>>, 10)
DefaultRow5 == Row(<<15, 20, 30, 20, 15>>, 100)

\* prob = max(0.1, min(0.9, 0.2 + avg_influence * 0.7)), avg = T / (4 n):
\* over the denominator 40 n, prob = clamp(8 n + 7 T, 4 n, 36 n)
DefaultRow2(cards, combo) ==
    LET n == Len(cards)
        T == TotalInfluence(DecodeRow(combo, cards), cards)
        q == Max2(4 * n, Min2(36 * n, 8 * n + 7 * T))
    IN  Row(<<40 * n - q, q>>, 40 * n)

DefaultTable(cards, num_outcomes) ==
    IF num_outcomes = 5
    THEN (IF cards = <<>> THEN << DefaultRow5 >>
          ELSE [r \in 1..Product(cards) |-> DefaultRow5])
    ELSE (IF cards = <<>> THEN << DefaultPrior2 >>
          ELSE [r \in 1..Product(cards) |-> DefaultRow2(cards, r - 1)])

----------------------------------------------------------------------------
\* FuzzyTacticsSystem

\* tactic_definitions / tactic_systems
KnownTactics == {"TA0043", "TA0042", "TA0001", "TA0002", "TA0003", "TA0004", "TA0005",
                 "TA0006", "TA0007", "TA0008", "TA0009", "TA0011", "TA0010", "TA0040"}

\* fuzz.trimf(universe, [a, b, c]) read at an integer x, times 60
Trimf60(x, a, b, c) ==
    IF x = b THEN 60
    ELSE IF a < x /\ x < b THEN (60 * (x - a)) \div (b - a)
    ELSE IF b < x /\ x < c THEN (60 * (c - x)) \div (c - b)
    ELSE 0

GradedMembershipRaw(v) ==
    Row(<< Trimf60(v, 0, 0, 20), Trimf60(v, 10, 25, 40), Trimf60(v, 30, 50, 70),
           Trimf60(v, 60, 75, 90), Trimf60(v, 80, 100, 100) >>, 60)

\* _create_success_probability_output and lines 692-712: membership of the
\* output value in the five terms, normalised by the total
GradedMembership(v) ==
    LET mu == << Trimf60(v, 0, 0, 20), Trimf60(v, 10, 25, 40), Trimf60(v, 30, 50, 70),
                 Trimf60(v, 60, 75, 90), Trimf60(v, 80, 100, 100) >>
    IN  IF SumSeq(mu) > 0 THEN Row(mu, SumSeq(mu)) ELSE Row(<<1, 1, 1, 1, 1>>, 5)

\* _compute_membership_from_value, lines 722-742
BucketMembership(v) ==
    IF v <= 20 THEN Row(<<80, 15, 5, 0, 0>>, 100)
    ELSE IF v <= 40 THEN Row(<<20, 60, 20, 0, 0>>, 100)
    ELSE IF v <= 60 THEN Row(<<5, 25, 40, 25, 5>>, 100)
    ELSE IF v <= 80 THEN Row(<<0, 0, 20, 60, 20>>, 100)
    ELSE Row(<<0, 0, 5, 15, 80>>, 100)

\* get_fuzzy_membership_distribution, lines 557-720.  out is what the rule
\* engine does for the tactic: it raises ("failed", lines 718-720), or yields
\* the value out.value and either gives access to the output terms ("graded",
\* lines 692-712) or not ("bucket", lines 688-690 and 714-716)
FuzzyMembership(tactic_id, out) ==
    IF tactic_id \notin KnownTactics THEN Row(<<1, 1, 1, 1, 1>>, 5)
    ELSE IF out.path = "failed" THEN Row(<<1, 1, 1, 1, 1>>, 5)
    ELSE IF out.path = "bucket" THEN BucketMembership(out.value)
    ELSE GradedMembership(out.value)

----------------------------------------------------------------------------
\* _handle_mixed_parent_cpt, lines 189-247.  With n parents and total influence
\* T quarters, avg = T / (4 n); base = b / D.  Over the denominator 4000 n D
\* the shifted entries are b[i] * 4000 n +- 3 * (6 n - 5 T) * w[i] * D (low) and
\* b[i] * 4000 n +- 3 * (5 T - 14 n) * w[i] * D (high), the floor 0.01 is
\* 40 n D, and the row is divided by its total.
LowShift == <<4, 3, -2, -3, -2>>
HighShift == <<-2, -3, -2, 3, 4>>

MixedRowNoRenorm(base, cards, combo) ==
    LET n == Len(cards)
        T == TotalInfluence(DecodeRow(combo, cards), cards)
        adj == [i \in 1..5 |->
                  base.p[i] * 4000 * n
                  + (IF 10 * T < 12 * n THEN 3 * (6 * n - 5 * T) * LowShift[i] * base.d
                     ELSE IF 10 * T > 28 * n THEN 3 * (5 * T - 14 * n) * HighShift[i] * base.d
                     ELSE 0)]
        clamped == [i \in 1..5 |-> Max2(40 * n * base.d, adj[i])]
    IN  Row(clamped, 4000 * n * base.d)
\* variant: rows of low influence are left unshifted
MixedRowHighOnly(base, cards, combo) ==
    LET n == Len(cards)
        T == TotalInfluence(DecodeRow(combo, cards), cards)
        adj == [i \in 1..5 |->
                  base.p[i] * 4000 * n
                  + (IF 10 * T > 28 * n THEN 3 * (5 * T - 14 * n) * HighShift[i] * base.d
                     ELSE 0)]
        clamped == [i \in 1..5 |-> Max2(40 * n * base.d, adj[i])]
    IN  Row(clamped, SumSeq(clamped))
MixedRow(base, cards, combo) ==
    LET n == Len(cards)
        T == TotalInfluence(DecodeRow(combo, cards), cards)
        adj == [i \in 1..5 |->
                  base.p[i] * 4000 * n
                  + (IF 10 * T < 12 * n THEN 3 * (6 * n - 5 * T) * LowShift[i] * base.d
                     ELSE IF 10 * T > 28 * n THEN 3 * (5 * T - 14 * n) * HighShift[i] * base.d
                     ELSE 0)]
        clamped == [i \in 1..5 |-> Max2(40 * n * base.d, adj[i])]
    IN  Row(clamped, SumSeq(clamped))

MixedTable(base, cards) ==
    IF cards = <<>> THEN << base >>
    ELSE [r \in 1..Product(cards) |-> MixedRow(base, cards, r - 1)]

\* length of the flat list of a table
FlatLen(table) == SumSeq([r \in DOMAIN table |-> Len(table[r].p)])

----------------------------------------------------------------------------
\* AttackFlowProcessor.process_file

\* The recommendation strings.  A message is its template and the text the
\* f-string embeds; Contains answers Python's `probe in msg` for the probes
\* the grouping code uses.
Msg(t, arg) == [t |-> t, arg |-> arg]

TemplateHas(t) ==
    CASE t = "partition" -> {"Partition recommended"}   \* "Partition recommended (parents: N)"
      [] t = "divorce"   -> {"Divorce recommended"}     \* "Divorce recommended (children: N)"
      [] t = "and"       -> {"Noisy adder", "AND"}      \* "Noisy adder logic node (AND) detected"
      [] t = "or"        -> {"Noisy-OR", "OR"}          \* "Noisy-OR logic node detected"
      [] t = "unknown"   -> {"Unknown"}                 \* "Unknown condition type: X"

\* which probes occur in an embedded kind string
StrHas(str) ==
    CASE str = "AND" -> {"AND"}
      [] str = "OR"  -> {"OR"}
      [] str = "XOR" -> {"OR"}
      [] str = "NAND" -> {"AND"}
      [] str = "AND (Noisy adder)" -> {"AND", "Noisy adder"}
      [] OTHER -> {}

Contains(msg, probe) ==
    \/ probe \in TemplateHas(msg.t)
    \/ msg.t = "unknown" /\ probe \in StrHas(msg.arg)

\* lines 56-65: getattr(obj, "condition_type" / "operator", "UNKNOWN")
ConditionNodesOf(objs) ==
    [id \in {o \in DOMAIN objs : objs[o].type \in {"attack-condition", "attack-operator"}}
        |-> IF objs[id].ctype = "" THEN "UNKNOWN" ELSE objs[id].ctype]

\* lines 111-114
RECURSIVE SourcesInto(_, _)
SourcesInto(edges, tgt) ==
    IF edges = <<>> THEN <<>>
    ELSE (IF Head(edges)[2] = tgt THEN << Head(edges)[1] >> ELSE <<>>)
         \o SourcesInto(Tail(edges), tgt)

RECURSIVE TargetsFrom(_, _)
TargetsFrom(edges, src) ==
    IF edges = <<>> THEN <<>>
    ELSE (IF Head(edges)[1] = src THEN << Head(edges)[2] >> ELSE <<>>)
         \o TargetsFrom(Tail(edges), src)

ParentMapOf(edges) == [t \in {e[2] : e \in Range(edges)} |-> SourcesInto(edges, t)]
ChildMapOf(edges) == [s \in {e[1] : e \in Range(edges)} |-> TargetsFrom(edges, s)]
AllNodesOf(edges) == {e[1] : e \in Range(edges)} \cup {e[2] : e \in Range(edges)}

\* dict.get(key, [])
Get(map, key) == IF key \in DOMAIN map THEN map[key] ELSE <<>>

\* lines 119-147: the messages of one node
PartitionAt == 3
DivorceAt == 3

NodeRecsNoLogic(pm, cm, conds, node_id) ==
    LET num_parents == Len(Get(pm, node_id))
        num_children == Len(Get(cm, node_id))
    IN  (IF num_parents >= PartitionAt
         THEN << Msg("partition", ToString(num_parents)) >> ELSE <<>>)
        \o (IF num_children >= DivorceAt
            THEN << Msg("divorce", ToString(num_children)) >> ELSE <<>>)
NodeRecsElif(pm, cm, conds, node_id) ==
    LET num_parents == Len(Get(pm, node_id))
        num_children == Len(Get(cm, node_id))
    IN  IF num_parents >= PartitionAt
        THEN << Msg("partition", ToString(num_parents)) >>
        ELSE IF num_children >= DivorceAt
        THEN << Msg("divorce", ToString(num_children)) >>
        ELSE <<>>
NodeRecs(pm, cm, conds, node_id) ==
    LET num_parents == Len(Get(pm, node_id))
        num_children == Len(Get(cm, node_id))
    IN  (IF num_parents >= PartitionAt
         THEN << Msg("partition", ToString(num_parents)) >> ELSE <<>>)
        \o (IF num_children >= DivorceAt
            THEN << Msg("divorce", ToString(num_children)) >> ELSE <<>>)
        \o (IF node_id \in DOMAIN conds
            THEN (IF conds[node_id] = "AND" THEN << Msg("and", "") >>
                  ELSE IF conds[node_id] = "OR" THEN << Msg("or", "") >>
                  ELSE << Msg("unknown", conds[node_id]) >>)
            ELSE <<>>)

\* lines 118-155, for the nodes of all_nodes in the order `order`
RECURSIVE RecsInOrder(_, _, _, _)
RecsInOrder(pm, cm, conds, order) ==
    IF order = <<>> THEN <<>>
    ELSE LET node_id == Head(order)
             node_recs == NodeRecs(pm, cm, conds, node_id)
         IN  (IF node_recs # <<>>
              THEN << [node_id |-> node_id,
                       num_parents |-> Len(Get(pm, node_id)),
                       num_children |-> Len(Get(cm, node_id)),
                       recommendations |-> node_recs] >>
              ELSE <<>>)
             \o RecsInOrder(pm, cm, conds, Tail(order))

\* the orders a Python set of these ids can be iterated in
Orders(S) == {o \in [1..Cardinality(S) -> S] : Range(o) = S}

----------------------------------------------------------------------------
\* GroupingUtil.get_partition_groups / get_divorce_groups / get_logic_groups
AnyContains(rec, probe) ==
    \E k \in DOMAIN rec.recommendations : Contains(rec.recommendations[k], probe)

RECURSIVE GetPartitionGroups(_, _, _, _)
GetPartitionGroups(recs, pm, objs, max) ==
    IF recs = <<>> THEN <<>>
    ELSE (IF AnyContains(Head(recs), "Partition recommended")
          THEN << [node_id |-> Head(recs).node_id,
                   groups |-> PartitionParents(objs, Get(pm, Head(recs).node_id), max)] >>
          ELSE <<>>)
         \o GetPartitionGroups(Tail(recs), pm, objs, max)

RECURSIVE GetDivorceGroups(_, _)
GetDivorceGroups(recs, cm) ==
    IF recs = <<>> THEN <<>>
    ELSE (IF AnyContains(Head(recs), "Divorce recommended")
          THEN << [node_id |-> Head(recs).node_id,
                   children |-> Get(cm, Head(recs).node_id)] >>
          ELSE <<>>)
         \o GetDivorceGroups(Tail(recs), cm)

\* lines 60-64, for one message: `A and B or C` reads `(A and B) or C`
LogicOfMsg(msg) ==
    IF Contains(msg, "AND") /\ Contains(msg, "Noisy adder") THEN "AND"
    ELSE IF (Contains(msg, "OR") /\ Contains(msg, "Noisy-OR")) \/ Contains(msg, "Unknown")
    THEN "OR"
    ELSE ""

RECURSIVE LogicGroupsOfMsgs(_, _, _)
LogicGroupsOfMsgs(node_id, msgs, pm) ==
    IF msgs = <<>> THEN <<>>
    ELSE (IF LogicOfMsg(Head(msgs)) # ""
          THEN << [node_id |-> node_id, logic |-> LogicOfMsg(Head(msgs)),
                   members |-> Get(pm, node_id)] >>
          ELSE <<>>)
         \o LogicGroupsOfMsgs(node_id, Tail(msgs), pm)

RECURSIVE GetLogicGroups(_, _)
GetLogicGroups(recs, pm) ==
    IF recs = <<>> THEN <<>>
    ELSE LogicGroupsOfMsgs(Head(recs).node_id, Head(recs).recommendations, pm)
         \o GetLogicGroups(Tail(recs), pm)

----------------------------------------------------------------------------
\* pysmile.Network, as far as FuzzyBNBuilder uses it.  `exc` is set by a call
\* that raises; every later call is skipped until a handler clears it, so an
\* exception no handler catches is still set when the phase ends.  `events`
\* records the arcs added and the tables assigned, in order.
EmptyNet ==
    [nodes |-> {}, type |-> <<>>, card |-> <<>>, parents |-> <<>>, def |-> <<>>,
     exc |-> FALSE, events |-> <<>>]

Has(n, id) == id \in n.nodes

Raise(n) == [n EXCEPT !.exc = TRUE]
\* except ...: the handler swallows the exception
Catch(n) == [n EXCEPT !.exc = FALSE]

Event(n, e) == [n EXCEPT !.events = Append(@, e)]

Uniform(card) == Row([i \in 1..card |-> 1], card)

CardsOf(n, ids) == [i \in DOMAIN ids |-> n.card[ids[i]]]

\* add_node: a new node has two outcomes, no parents and a uniform table of
\* its own; an id already in use raises
AddNode(n, type, id) ==
    IF n.exc THEN n
    ELSE IF Has(n, id) THEN Raise(n)
    ELSE [n EXCEPT !.nodes = @ \cup {id},
                   !.type = (id :> type) @@ @,
                   !.card = (id :> 2) @@ @,
                   !.parents = (id :> <<>>) @@ @,
                   !.def = (id :> (IF type = "CPT" THEN << Uniform(2) >> ELSE <<>>)) @@ @]

\* add_outcome: one more state, with probability 0 in the rows that exist
AddOutcome(n, id) ==
    IF n.exc THEN n
    ELSE IF ~Has(n, id) THEN Raise(n)
    ELSE [n EXCEPT !.card[id] = @ + 1,
                   !.def[id] = [r \in DOMAIN @ |-> Row(Append(@[r].p, 0), @[r].d)]]

RECURSIVE Ancestors(_, _)
Ancestors(n, id) ==
    Range(n.parents[id]) \cup UNION {Ancestors(n, q) : q \in Range(n.parents[id])}

\* add_arc: raises when an end is missing, the arc exists or it would close a
\* cycle; otherwise the parent is appended to the child's parent list and the
\* child's table is resized, its rows repeated for every state of the new parent
AddArc(n, p, c) ==
    IF n.exc THEN n
    ELSE IF ~Has(n, p) \/ ~Has(n, c) THEN Raise(n)
    ELSE IF p = c \/ p \in Range(n.parents[c]) \/ c \in Ancestors(n, p) THEN Raise(n)
    ELSE Event([n EXCEPT !.parents[c] = Append(@, p),
                         !.def[c] = IF n.type[c] = "CPT"
                                    THEN [r \in 1..(Len(@) * n.card[p]) |->
                                             @[((r - 1) % Len(@)) + 1]]
                                    ELSE @],
               <<"arc", p, c>>)

\* the length set_node_definition demands: a CPT has one row per combination
\* of parent states, a noisy-MAX one column per parent state plus the leak
ExpectedLen(n, id) ==
    IF n.type[id] = "CPT"
    THEN Product(CardsOf(n, n.parents[id])) * n.card[id]
    ELSE (SumSeq(CardsOf(n, n.parents[id])) + 1) * n.card[id]

\* set_node_definition: raises on a list of the wrong length (the table is
\* refused and the node keeps the one it had)
SetDef(n, id, table) ==
    IF n.exc THEN n
    ELSE IF ~Has(n, id) THEN Raise(n)
    ELSE IF FlatLen(table) # ExpectedLen(n, id)
    THEN Raise(Event(n, <<"refused", id, n.parents[id]>>))
    ELSE Event([n EXCEPT !.def[id] = table], <<"cpt", id, n.parents[id]>>)

Without(f, id) == [x \in DOMAIN f \ {id} |-> f[x]]
RemoveFrom(seq, id) == SelectSeq(seq, LAMBDA x : x # id)

\* delete_node: the node goes, and with it every arc into and out of it
DeleteNode(n, id) ==
    IF n.exc THEN n
    ELSE IF ~Has(n, id) THEN Raise(n)
    ELSE Event([n EXCEPT !.nodes = @ \ {id},
                         !.type = Without(@, id),
                         !.card = Without(@, id),
                         !.def = [x \in DOMAIN @ \ {id} |->
                                    IF id \in Range(n.parents[x]) /\ n.type[x] = "CPT"
                                    THEN [r \in 1..(Len(@[x]) \div n.card[id]) |-> @[x][r]]
                                    ELSE @[x]],
                         !.parents = [x \in DOMAIN @ \ {id} |-> RemoveFrom(@[x], id)]],
               <<"delete", id>>)

\* _add_cpt_node, lines 71-96
RECURSIVE AddOutcomes(_, _, _)
AddOutcomes(n, id, k) == IF k = 0 THEN n ELSE AddOutcomes(AddOutcome(n, id), id, k - 1)

AddCptNode(n, node_id, is_fuzzy_tactic) ==
    LET n1 == AddNode(n, "CPT", node_id)
    IN  IF is_fuzzy_tactic THEN AddOutcomes(n1, node_id, 3) ELSE n1

----------------------------------------------------------------------------
\* FuzzyBNBuilder

\* a handler around one call: what the call raised is swallowed
Caught(n, after) == IF n.exc THEN n ELSE Catch(after)

\* _identify_tactic_nodes, lines 52-69
TacticNodes(objs, used) ==
    [nid \in {u \in used : u \in DOMAIN objs /\ objs[u].tactic_id # ""} |-> objs[nid].tactic_id]

\* build, lines 380-389
RECURSIVE CreateAll(_, _, _)
CreateAll(n, ids, tn) ==
    IF ids = {} THEN n
    ELSE LET nid == CHOOSE x \in ids : TRUE
         IN  CreateAll(AddCptNode(n, Safe(nid), nid \in DOMAIN tn), ids \ {nid}, tn)

\* build, lines 410-429 (the strengths set_noisy_parent_strengths configures
\* are not part of the model)
RECURSIVE WireMembers(_, _, _)
WireMembers(n, group, gate) ==
    IF group = <<>> THEN n
    ELSE WireMembers(AddArc(n, Safe(Head(group)), gate), Tail(group), gate)

\* build, lines 399-432
RECURSIVE WireSubGroups(_, _, _, _)
WireSubGroups(n, parent, groups, idx) ==
    IF groups = <<>> THEN n
    ELSE LET inter_sid == Safe(GrpId(parent, idx))
             n1 == AddNode(n, "NOISY_MAX", inter_sid)
             n2 == WireMembers(n1, Head(groups), inter_sid)
             n3 == AddArc(n2, inter_sid, Safe(parent))
         IN  WireSubGroups(n3, parent, Tail(groups), idx + 1)

RECURSIVE WirePartitionAll(_, _, _)
WirePartitionAll(n, pgs, logic_ids) ==
    IF pgs = <<>> THEN n
    ELSE WirePartitionAll(WireSubGroups(n, Head(pgs).node_id, Head(pgs).groups, 1),
                          Tail(pgs), logic_ids)

\* build, lines 392-432
RECURSIVE WirePartitionGroups(_, _, _)
WirePartitionGroups(n, pgs, logic_ids) ==
    IF pgs = <<>> THEN n
    ELSE WirePartitionGroups(
            IF Head(pgs).node_id \in logic_ids THEN n
            ELSE WireSubGroups(n, Head(pgs).node_id, Head(pgs).groups, 1),
            Tail(pgs), logic_ids)

\* build, lines 457-464: get_outcome_count, 2 when the call raises
MemberCards(n, members) ==
    [i \in DOMAIN members |->
        IF Has(n, Safe(members[i])) THEN n.card[Safe(members[i])] ELSE 2]

\* build, lines 442-494
WireAnd(n, lg) ==
    LET op_sid == Safe(lg.node_id)
        n1 == Caught(n, AddNode(n, "CPT", op_sid))
        n2 == WireMembers(n1, lg.members, op_sid)
    IN  SetDef(n2, op_sid, AndTable(MemberCards(n2, lg.members)))

\* build, lines 496-534
WireOr(n, lg) ==
    LET op_sid == Safe(lg.node_id)
        n1 == IF Has(n, op_sid)
              THEN (IF n.type[op_sid] # "NOISY_MAX"
                    THEN AddNode(DeleteNode(n, op_sid), "NOISY_MAX", op_sid)
                    ELSE n)
              ELSE AddNode(n, "NOISY_MAX", op_sid)
    IN  WireMembers(n1, lg.members, op_sid)

\* build, lines 435-534
RECURSIVE WireLogicGroups(_, _)
WireLogicGroups(n, lgs) ==
    IF lgs = <<>> THEN n
    ELSE WireLogicGroups(IF Head(lgs).logic = "AND" THEN WireAnd(n, Head(lgs))
                         ELSE WireOr(n, Head(lgs)),
                         Tail(lgs))

\* build, lines 537-542
Partitioned(pgs) == {pgs[i].node_id : i \in DOMAIN pgs}
DivorceChildren(dgs, pgs) ==
    UNION {Range(dgs[i].children) : i \in {j \in DOMAIN dgs : dgs[j].node_id \notin Partitioned(pgs)}}

\* position of the hub among the child's parents (the last match of the loop)
IndexOf(seq, x) == CHOOSE i \in DOMAIN seq : seq[i] = x /\ \A j \in DOMAIN seq : seq[j] = x => j <= i

\* build, lines 561-632
RECURSIVE WireHubChildren(_, _, _)
WireHubChildren(n, hub_sid, children) ==
    IF children = <<>> THEN n
    ELSE LET c_sid == Safe(Head(children))
             n1 == AddArc(n, hub_sid, c_sid)
             all_parents == n1.parents[c_sid]
             parent_info == CardsOf(n1, all_parents)
             child_states == n1.card[c_sid]
             n2 == IF n1.exc THEN n1
                   ELSE IF hub_sid \notin Range(all_parents) THEN n1
                   ELSE IF child_states \in {5, 2}
                   THEN SetDef(n1, c_sid,
                               DivorceTable(parent_info, IndexOf(all_parents, hub_sid),
                                            child_states))
                   ELSE n1
         IN  WireHubChildren(n2, hub_sid, Tail(children))

\* variant: every child of the group is wired to the hub
RECURSIVE WireDivorceGroupsAll(_, _, _)
WireDivorceGroupsAll(n, dgs, partitioned) ==
    IF dgs = <<>> THEN n
    ELSE LET dg == Head(dgs)
             children == dg.children
             hub_sid == Safe(DivId(dg.node_id))
             n1 == AddCptNode(n, hub_sid, FALSE)
             n2 == AddArc(n1, Safe(dg.node_id), hub_sid)
         IN  WireDivorceGroupsAll(IF children = <<>> THEN n
                                  ELSE WireHubChildren(n2, hub_sid, children),
                                  Tail(dgs), partitioned)

\* build, lines 544-632
RECURSIVE WireDivorceGroups(_, _, _)
WireDivorceGroups(n, dgs, partitioned) ==
    IF dgs = <<>> THEN n
    ELSE LET dg == Head(dgs)
             children == SelectSeq(dg.children, LAMBDA c : c \notin partitioned)
             hub_sid == Safe(DivId(dg.node_id))
             n1 == AddCptNode(n, hub_sid, FALSE)
             n2 == AddArc(n1, Safe(dg.node_id), hub_sid)
         IN  WireDivorceGroups(IF children = <<>> THEN n
                               ELSE WireHubChildren(n2, hub_sid, children),
                               Tail(dgs), partitioned)

\* build, lines 647-657
Covered(pgs, lgs, dgs) ==
    UNION {{<<pid, pgs[i].node_id>> : pid \in Range(Flatten(pgs[i].groups))} : i \in DOMAIN pgs}
    \cup UNION {{<<pid, lgs[i].node_id>> : pid \in Range(lgs[i].members)} : i \in DOMAIN lgs}
    \cup UNION {{<<dgs[i].node_id, cid>> : cid \in Range(dgs[i].children)} : i \in DOMAIN dgs}

\* build, lines 660-671
RECURSIVE WireEdges(_, _, _, _)
WireEdges(n, edges, divorce_children, covered) ==
    IF edges = <<>> THEN n
    ELSE LET s == Head(edges)[1]
             t == Head(edges)[2]
             ks == Safe(s)
             kt == Safe(t)
             n1 == IF kt \in divorce_children THEN n
                   ELSE IF <<s, t>> \in covered THEN n
                   ELSE IF ks \notin n.nodes \/ kt \notin n.nodes THEN n
                   ELSE Caught(n, AddArc(n, ks, kt))
         IN  WireEdges(n1, Tail(edges), divorce_children, covered)

\* _set_default_cpt
SetDefaultCpt(n, sid) ==
    SetDef(n, sid, DefaultTable(CardsOf(n, n.parents[sid]), n.card[sid]))

\* _set_fuzzy_cpt, lines 254-298, with _handle_mixed_parent_cpt
SetFuzzyCpt(n, sid, tactic_id, sim) ==
    LET base == FuzzyMembership(tactic_id,
                                IF tactic_id \in DOMAIN sim THEN sim[tactic_id]
                                ELSE [value |-> 50, path |-> "graded"])
        n1 == SetDef(n, sid, MixedTable(base, CardsOf(n, n.parents[sid])))
    IN  IF n.exc THEN n
        ELSE IF n1.exc THEN SetDefaultCpt(n, sid)
        ELSE n1

\* _set_all_cpts, lines 681-706
SetCpt(n, node_id, tn, sim) ==
    LET sid == Safe(node_id)
    IN  IF ~Has(n, sid) THEN n
        ELSE IF n.type[sid] # "CPT" THEN n
        ELSE IF node_id \in DOMAIN tn THEN SetFuzzyCpt(n, sid, tn[node_id], sim)
        ELSE IF n.def[sid] # <<>> THEN n
        ELSE SetDefaultCpt(n, sid)

RECURSIVE SetAllCpts(_, _, _, _)
SetAllCpts(n, ids, tn, sim) ==
    IF ids = {} THEN n
    ELSE LET nid == CHOOSE x \in ids : TRUE
         IN  SetAllCpts(SetCpt(n, nid, tn, sim), ids \ {nid}, tn, sim)

----------------------------------------------------------------------------
\* The pipeline: process_file, the grouping calls of user_interface.py
\* (lines 237-250) and FuzzyBNBuilder.build (Spec)

\* The edges an input graph is drawn from, in extraction order: fan-in on M
\* and T1, fan-out from S1, S2 and M, an edge back to S1 and a repeated edge.
EdgePool ==
    << <<S1, M>>, <<S2, M>>, <<S3, M>>, <<S1, T1>>, <<S2, T1>>, <<S1, T2>>, <<S2, T2>>,
       <<M, T1>>, <<M, T2>>, <<M, T3>>, <<T1, S1>>, <<S1, T2>> >>

RECURSIVE Pick(_, _, _)
Pick(seq, I, k) ==
    IF k > Len(seq) THEN <<>>
    ELSE (IF k \in I THEN << seq[k] >> ELSE <<>>) \o Pick(seq, I, k + 1)

EdgeLists ==
    {Pick(EdgePool, I, 1) : I \in {J \in SUBSET DOMAIN EdgePool : Cardinality(J) <= MaxEdges}}

\* what the rule engine computes for a tactic at the parameters of the run
SimOutputs ==
    { [t \in KnownTactics |-> [value |-> 50, path |-> "graded"]],
      [t \in KnownTactics |->
          CASE t = "TA0001" -> [value |-> 12, path |-> "graded"]
            [] t = "TA0002" -> [value |-> 83, path |-> "graded"]
            [] t = "TA0043" -> [value |-> 100, path |-> "graded"]
            [] OTHER -> [value |-> 35, path |-> "graded"]],
      [t \in KnownTactics |->
          CASE t = "TA0001" -> [value |-> 12, path |-> "bucket"]
            [] t = "TA0002" -> [value |-> 83, path |-> "failed"]
            [] t = "TA0043" -> [value |-> 70, path |-> "bucket"]
            [] OTHER -> [value |-> 35, path |-> "bucket"]] }

PartOff ==
    /\ pp_pc = "off" /\ pp_parents = <<>> /\ pp_max = DefaultMaxSize
    /\ pp_buckets = <<>> /\ pp_chunks = <<>> /\ pp_groups = <<>>

Init ==
    /\ PartOff
    /\ FuzzyOff
    /\ AuxOff
    /\ pc = "process"
    /\ id_to_obj \in Registries
    /\ in_edges \in EdgeLists
    /\ sim_output = <<>>
    /\ parent_map = <<>> /\ child_map = <<>> /\ all_nodes = {} /\ condition_nodes = <<>>
    /\ recommendations = <<>> /\ used_ids = {} /\ graph_edges = <<>>
    /\ partition_groups = <<>> /\ divorce_groups = <<>> /\ logic_groups = <<>>
    /\ net = EmptyNet /\ log = <<>>

\* process_file, lines 52-114
ProcessEdges ==
    /\ pc = "process"
    /\ condition_nodes' = ConditionNodesOf(id_to_obj)
    /\ parent_map' = ParentMapOf(in_edges)
    /\ child_map' = ChildMapOf(in_edges)
    /\ all_nodes' = AllNodesOf(in_edges)
    /\ pc' = "recommend"
    /\ UNCHANGED <<ppvars, fzvars, auxvars, id_to_obj, in_edges, sim_output, recommendations, used_ids,
                   graph_edges, partition_groups, divorce_groups, logic_groups, net, log>>

\* process_file, lines 116-181, and user_interface.py line 244.  all_nodes is
\* a set: the loop meets its nodes in some order, and the order of the nodes
\* that get a message is the order of the list (a node without one adds
\* nothing).  Every referenced object is in the bundle, so used_ids holds the
\* ends of the edges.
Recommend ==
    /\ pc = "recommend"
    /\ \E order \in Orders({n \in all_nodes :
                               NodeRecs(parent_map, child_map, condition_nodes, n) # <<>>}) :
          recommendations' = RecsInOrder(parent_map, child_map, condition_nodes, order)
    /\ used_ids' = AllNodesOf(in_edges)
    /\ graph_edges' = in_edges
    /\ pc' = "group"
    /\ UNCHANGED <<ppvars, fzvars, auxvars, id_to_obj, in_edges, sim_output, parent_map, child_map, all_nodes,
                   condition_nodes, partition_groups, divorce_groups, logic_groups, net, log>>

\* user_interface.py, lines 237-250
ComputeGroups ==
    /\ pc = "group"
    /\ partition_groups' = GetPartitionGroups(recommendations, parent_map, id_to_obj, pp_max)
    /\ divorce_groups' = GetDivorceGroups(recommendations, child_map)
    /\ logic_groups' = GetLogicGroups(recommendations, parent_map)
    /\ pc' = "create"
    /\ UNCHANGED <<ppvars, fzvars, auxvars, id_to_obj, in_edges, sim_output, parent_map, child_map, all_nodes,
                   condition_nodes, recommendations, used_ids, graph_edges, net, log>>

\* a phase of build: the net it leaves, and whether an exception escaped
Phase(name, next, after) ==
    /\ net' = after
    /\ log' = Append(log, name)
    /\ pc' = IF after.exc THEN "aborted" ELSE next
    /\ UNCHANGED <<ppvars, fzvars, auxvars, id_to_obj, in_edges, parent_map, child_map, all_nodes,
                   condition_nodes, recommendations, used_ids, graph_edges,
                   partition_groups, divorce_groups, logic_groups>>

\* build, lines 380-389
CreateVariables ==
    /\ UNCHANGED sim_output
    /\ pc = "create"
    /\ Phase("CreateVariables", "partition",
             CreateAll(net, used_ids, TacticNodes(id_to_obj, used_ids)))

WirePartition ==
    /\ UNCHANGED sim_output
    /\ pc = "partition"
    /\ Phase("WirePartition", "logic",
             WirePartitionGroups(net, partition_groups,
                                 {logic_groups[i].node_id : i \in DOMAIN logic_groups}))

WireLogic ==
    /\ UNCHANGED sim_output
    /\ pc = "logic"
    /\ Phase("WireLogic", "divorce", WireLogicGroups(net, logic_groups))

WireDivorce ==
    /\ UNCHANGED sim_output
    /\ pc = "divorce"
    /\ Phase("WireDivorce", "edges",
             WireDivorceGroups(net, divorce_groups, Partitioned(partition_groups)))

WireRemainingEdges ==
    /\ UNCHANGED sim_output
    /\ pc = "edges"
    /\ Phase("WireRemainingEdges", "cpts",
             WireEdges(net, graph_edges, DivorceChildren(divorce_groups, partition_groups),
                       Covered(partition_groups, logic_groups, divorce_groups)))

\* _set_all_cpts; the rule engine is an input of the run
ComputeAllCPTs ==
    /\ pc = "cpts"
    /\ \E sim \in SimOutputs :
          /\ sim_output' = sim
          /\ Phase("ComputeAllCPTs", "layout",
                   SetAllCpts(net, used_ids, TacticNodes(id_to_obj, used_ids), sim))


\* _layout_network, line 754: next(iter(all_ids)) raises on a network without
\* nodes; the positions it computes otherwise are not part of the model
LayoutNetNoRaise(n) == n
LayoutNet(n) ==
    IF n.exc THEN n
    ELSE IF n.nodes = {} THEN Raise(n)
    ELSE n

\* build, line 676
Layout ==
    /\ UNCHANGED sim_output
    /\ pc = "layout"
    /\ Phase("Layout", "done", LayoutNet(net))

\* the model one run of the grouping calls and of build yields from a
\* recommendation list: what an exception escaping a phase leaves is final
BuildFrom(recs, sim) ==
    LET pgs == GetPartitionGroups(recs, parent_map, id_to_obj, pp_max)
        dgs == GetDivorceGroups(recs, child_map)
        lgs == GetLogicGroups(recs, parent_map)
        tn == TacticNodes(id_to_obj, used_ids)
        n1 == CreateAll(EmptyNet, used_ids, tn)
        n2 == WirePartitionGroups(n1, pgs, {lgs[i].node_id : i \in DOMAIN lgs})
        n3 == WireLogicGroups(n2, lgs)
        n4 == WireDivorceGroups(n3, dgs, Partitioned(pgs))
        n5 == WireEdges(n4, graph_edges, DivorceChildren(dgs, pgs), Covered(pgs, lgs, dgs))
        n6 == SetAllCpts(n5, used_ids, tn, sim)
    IN  LayoutNet(n6)

Next ==
    \/ ProcessEdges \/ Recommend \/ ComputeGroups
    \/ CreateVariables \/ WirePartition \/ WireLogic \/ WireDivorce
    \/ WireRemainingEdges \/ ComputeAllCPTs \/ Layout

Spec == Init /\ [][Next]_vars

----------------------------------------------------------------------------
\* One call of FuzzyTacticsSystem.get_fuzzy_membership_distribution, step by
\* step (SpecFuzzy).  The rule engine (skfuzzy) is outside the program: what
\* compute() and the access to the output terms do is chosen among the
\* outcomes the code provides for.

\* get_default_fuzzy_params, lines 814-838
GetDefaultFuzzyParams(tactic_id) ==
    CASE tactic_id = "TA0043" ->
            [detection_difficulty |-> 70, skill_requirement |-> 30, target_exposure |-> 60]
      [] tactic_id = "TA0042" ->
            [resource_availability |-> 60, skill_requirement |-> 50, time_constraint |-> 40]
      [] tactic_id = "TA0001" ->
            [attack_surface |-> 50, detection_difficulty |-> 60, skill_requirement |-> 60]
      [] tactic_id = "TA0002" -> [detection_difficulty |-> 40, skill_requirement |-> 40]
      [] tactic_id = "TA0003" ->
            [system_complexity |-> 50, detection_difficulty |-> 70, skill_requirement |-> 70]
      [] tactic_id = "TA0004" ->
            [security_hardening |-> 60, skill_requirement |-> 80, detection_difficulty |-> 80]
      [] tactic_id = "TA0005" ->
            [monitoring_coverage |-> 50, skill_requirement |-> 70, detection_difficulty |-> 80]
      [] tactic_id = "TA0006" ->
            [password_policy |-> 50, skill_requirement |-> 60, resource_availability |-> 70]
      [] tactic_id = "TA0007" -> [skill_requirement |-> 40, detection_difficulty |-> 50]
      [] tactic_id = "TA0008" ->
            [network_segmentation |-> 50, skill_requirement |-> 70, detection_difficulty |-> 70]
      [] tactic_id = "TA0009" ->
            [data_accessibility |-> 60, skill_requirement |-> 50, detection_difficulty |-> 60]
      [] tactic_id = "TA0011" ->
            [network_monitoring |-> 50, skill_requirement |-> 60, detection_difficulty |-> 70]
      [] tactic_id = "TA0010" ->
            [data_loss_prevention |-> 50, skill_requirement |-> 70, detection_difficulty |-> 80]
      [] tactic_id = "TA0040" ->
            [backup_recovery |-> 50, skill_requirement |-> 60, detection_difficulty |-> 70]
      [] OTHER -> [detection_difficulty |-> 50, skill_requirement |-> 50]

\* sim.ctrl.antecedents: the inputs the rules of the tactic's system read
\* (_create_*_system, lines 76-393), which are the names of its defaults
InputNames(tactic_id) == DOMAIN GetDefaultFuzzyParams(tactic_id)

\* max(0, min(100, value)), lines 627 and 635
Clamp(value) == Max2(0, Min2(100, value))

\* lines 623-635: sim.input after the two loops
SetInputs(tactic_id, params) ==
    LET expected == GetDefaultFuzzyParams(tactic_id)
        additional == (DOMAIN params \cap InputNames(tactic_id)) \ DOMAIN expected
    IN  [name \in DOMAIN expected \cup additional |->
            IF name \in DOMAIN params THEN Clamp(params[name]) ELSE expected[name]]

\* lines 692-712: a term whose membership cannot be read counts 0.2, and the
\* list is divided by its total
GradedWith(v, failed) ==
    LET mu == << Trimf60(v, 0, 0, 20), Trimf60(v, 10, 25, 40), Trimf60(v, 30, 50, 70),
                 Trimf60(v, 60, 75, 90), Trimf60(v, 80, 100, 100) >>
        ms == [i \in 1..5 |-> IF i \in failed THEN 12 ELSE mu[i]]
    IN  IF failed = {} THEN GradedMembership(v)
        ELSE IF SumSeq(ms) > 0 THEN Row(ms, SumSeq(ms))
        ELSE Row(<<1, 1, 1, 1, 1>>, 5)

\* the inputs of the calls checked
FzTactics == {"TA0001", "TA0002", "TA9999"}
FzNames == {"attack_surface", "skill_requirement", "colour"}
FzParamValues == {0 - 20, 55, 140}
FzParams == UNION {[S -> FzParamValues] : S \in SUBSET FzNames}

\* what the engine can do once the inputs are set: compute() raises, or it
\* yields a value and the output terms are readable (all, or all but some)
\* or not
FzOutputs == {0, 12, 20, 21, 40, 50, 61, 83, 100}
FzFailedTerms == {{}, {1}, {3, 5}, {1, 2, 3, 4, 5}}
EngineOutcomes ==
    {[compute |-> "raises", value |-> 0, output_var |-> FALSE, failed |-> {}]}
    \cup {[compute |-> "ok", value |-> v, output_var |-> FALSE, failed |-> {}] : v \in FzOutputs}
    \cup {[compute |-> "ok", value |-> v, output_var |-> TRUE, failed |-> f] :
             v \in FzOutputs, f \in FzFailedTerms}

InitFuzzy ==
    /\ fz_pc = "call"
    /\ fz_tactic \in FzTactics
    /\ fz_system \in (IF fz_tactic \in KnownTactics THEN {"ready", "none"} ELSE {"absent"})
    /\ fz_params \in FzParams
    /\ fz_input = <<>> /\ fz_engine = <<>> /\ fz_result = <<>>
    /\ PartOff
    /\ PipelineOff /\ id_to_obj = <<>>
    /\ AuxOff

\* lines 568-574
FzLookup ==
    /\ fz_pc = "call"
    /\ IF fz_tactic \notin KnownTactics \/ fz_system # "ready"
       THEN fz_result' = Row(<<1, 1, 1, 1, 1>>, 5) /\ fz_pc' = "returned"
       ELSE fz_result' = fz_result /\ fz_pc' = "inputs"
    /\ UNCHANGED <<fz_tactic, fz_system, fz_params, fz_input, fz_engine, ppvars, plvars, auxvars>>

\* lines 576-635
FzSetInputs ==
    /\ fz_pc = "inputs"
    /\ fz_input' = SetInputs(fz_tactic, fz_params)
    /\ fz_pc' = "compute"
    /\ UNCHANGED <<fz_tactic, fz_system, fz_params, fz_engine, fz_result, ppvars, plvars, auxvars>>

\* lines 637-656, and 718-720 when compute() raises
FzCompute ==
    /\ fz_pc = "compute"
    /\ \E e \in EngineOutcomes :
          /\ fz_engine' = e
          /\ IF e.compute = "raises"
             THEN fz_result' = Row(<<1, 1, 1, 1, 1>>, 5) /\ fz_pc' = "returned"
             ELSE fz_result' = fz_result /\ fz_pc' = "terms"
    /\ UNCHANGED <<fz_tactic, fz_system, fz_params, fz_input, ppvars, plvars, auxvars>>

\* lines 658-716
FzTerms ==
    /\ fz_pc = "terms"
    /\ fz_result' = IF fz_engine.output_var
                    THEN GradedWith(fz_engine.value, fz_engine.failed)
                    ELSE BucketMembership(fz_engine.value)
    /\ fz_pc' = "returned"
    /\ UNCHANGED <<fz_tactic, fz_system, fz_params, fz_input, fz_engine, ppvars, plvars, auxvars>>

NextFuzzy == FzLookup \/ FzSetInputs \/ FzCompute \/ FzTerms

SpecFuzzy == InitFuzzy /\ [][NextFuzzy]_vars

----------------------------------------------------------------------------
\* The recommendations of process_file and GroupingUtil.get_logic_groups for
\* a graph whose nodes M and T1 may be conditions or operators of any kind
\* string (SpecLogic).  parse(..., allow_custom=True) accepts any string as
\* the kind of an operator.

KindStrings == {"AND", "OR", "XOR", "UNKNOWN", "NAND", "AND (Noisy adder)"}

LogicEdgePool == << <<S1, M>>, <<S2, M>>, <<S3, M>>, <<M, T1>>, <<S1, T1>> >>

InitLogic ==
    /\ lg_pc = "process"
    /\ lg_conds \in UNION {[D -> KindStrings] : D \in SUBSET {M, T1}}
    /\ lg_edges \in {Pick(LogicEdgePool, I, 1) : I \in SUBSET DOMAIN LogicEdgePool}
    /\ lg_recs = <<>> /\ lg_groups = <<>>
    /\ PartOff /\ FuzzyOff /\ LayoutOff /\ WsOff
    /\ PipelineOff /\ id_to_obj = <<>>

\* process_file, lines 107-155
LgProcessFile ==
    /\ lg_pc = "process"
    /\ LET pm == ParentMapOf(lg_edges)
           cm == ChildMapOf(lg_edges)
       IN  \E order \in Orders({n \in AllNodesOf(lg_edges) : NodeRecs(pm, cm, lg_conds, n) # <<>>}) :
              lg_recs' = RecsInOrder(pm, cm, lg_conds, order)
    /\ lg_pc' = "group"
    /\ UNCHANGED <<lg_conds, lg_edges, lg_groups, ppvars, plvars, fzvars, lyvars, wsvars>>

\* user_interface.py line 250: get_logic_groups()
LgGetLogicGroups ==
    /\ lg_pc = "group"
    /\ lg_groups' = GetLogicGroups(lg_recs, ParentMapOf(lg_edges))
    /\ lg_pc' = "done"
    /\ UNCHANGED <<lg_conds, lg_edges, lg_recs, ppvars, plvars, fzvars, lyvars, wsvars>>

NextLogic == LgProcessFile \/ LgGetLogicGroups

SpecLogic == InitLogic /\ [][NextLogic]_vars

----------------------------------------------------------------------------
\* The two loops of a compilation whose end is not fixed in advance, step by
\* step (SpecTerminates): the merge loop of partition_parents, run on the
\* parents of t-1, and then the breadth-first leveling of _layout_network on
\* the graph in which t-1 has these parents, with or without an edge from
\* t-1 back to its first parent.

\* the edges parent -> node, in the order of the parent list
EdgesInto1(parents, node) == [i \in DOMAIN parents |-> <<parents[i], node>>]

InitTerminates ==
    /\ pp_pc = "bucket"
    /\ pp_parents \in SeqsUpTo(PartIds, MaxTermParents)
    /\ pp_max \in 1..MaxSizeBound
    /\ pp_buckets = <<>> /\ pp_chunks = <<>> /\ pp_groups = <<>>
    /\ id_to_obj \in {Registry("attack-action", "", NoTactic),
                      Registry("attack-action", "", SomeTactics)}
    /\ PipelineOff
    /\ FuzzyOff
    /\ LogicOff /\ WsOff
    /\ ly_pc = "wait"
    /\ ly_edges \in {EdgesInto1(pp_parents, T1)}
                     \cup (IF pp_parents = <<>> THEN {}
                           ELSE {Append(EdgesInto1(pp_parents, T1), <<T1, pp_parents[1]>>)})
    /\ ly_arcs = <<>> /\ ly_ids = {} /\ ly_queue = <<>> /\ ly_level = <<>>

\* _layout_network, lines 719-726: the arcs of one partition group
RECURSIVE GroupArcs(_, _, _)
GroupArcs(node_id, groups, idx) ==
    IF groups = <<>> THEN <<>>
    ELSE LET inter == Safe(GrpId(node_id, idx))
         IN  [i \in DOMAIN Head(groups) |-> <<Safe(Head(groups)[i]), inter>>]
             \o << <<inter, Safe(node_id)>> >>
             \o GroupArcs(node_id, Tail(groups), idx + 1)

\* _layout_network, lines 714-741
LayoutArcs(pgs, lgs, dgs, edges) ==
    LET logic_ids == {lgs[i].node_id : i \in DOMAIN lgs}
    IN  Flatten([i \in DOMAIN pgs |->
                    IF pgs[i].node_id \in logic_ids THEN <<>>
                    ELSE GroupArcs(pgs[i].node_id, pgs[i].groups, 1)])
        \o Flatten([i \in DOMAIN lgs |->
                    [k \in DOMAIN lgs[i].members |->
                        <<Safe(lgs[i].members[k]), Safe(lgs[i].node_id)>>]])
        \o Flatten([i \in DOMAIN dgs |->
                    << <<Safe(dgs[i].node_id), Safe(DivId(dgs[i].node_id))>> >>
                    \o [k \in DOMAIN dgs[i].children |->
                           <<Safe(DivId(dgs[i].node_id)), Safe(dgs[i].children[k])>>]])
        \o [i \in DOMAIN edges |-> <<Safe(edges[i][1]), Safe(edges[i][2])>>]

\* process_file line 123 and get_partition_groups: t-1 is partitioned when it
\* has three parents or more
TermPartitionGroups ==
    IF Len(pp_parents) >= PartitionAt THEN << [node_id |-> T1, groups |-> pp_groups] >>
    ELSE <<>>

\* the variables build has created when it reaches _layout_network (lines
\* 380-432): one per node of the graph and one per group of the partition
TermAllIds ==
    {Safe(e[1]) : e \in Range(ly_edges)} \cup {Safe(e[2]) : e \in Range(ly_edges)}
    \cup {Safe(GrpId(TermPartitionGroups[i].node_id, idx)) :
             i \in DOMAIN TermPartitionGroups, idx \in DOMAIN pp_groups}

\* build up to the call of _layout_network, and its lines 711-758.  A parent
\* listed twice in a partition group makes add_arc raise at line 412, and a
\* network without nodes makes line 754 raise: the compilation ends there.
\* `roots` is read off a set, in any order.
LyCollect ==
    /\ pp_pc = "done" /\ ly_pc = "wait"
    /\ IF \/ (TermPartitionGroups # <<>> /\ ~NoRepeat(pp_parents))
          \/ TermAllIds = {}
       THEN /\ ly_pc' = "aborted"
            /\ UNCHANGED <<ly_arcs, ly_ids, ly_queue>>
       ELSE LET arcs == LayoutArcs(TermPartitionGroups, <<>>, <<>>, ly_edges)
                incoming == {a[2] : a \in Range(arcs)}
                all_ids == TermAllIds
                rootsets == IF all_ids \ incoming # {} THEN {all_ids \ incoming}
                            ELSE {{n} : n \in all_ids}
            IN  /\ ly_arcs' = arcs
                /\ ly_ids' = all_ids
                /\ \E roots \in rootsets : \E order \in Orders(roots) :
                      ly_queue' = [i \in DOMAIN order |-> <<order[i], 0>>]
                /\ ly_pc' = "bfs"
    /\ UNCHANGED <<ly_edges, ly_level, ppvars, plvars, fzvars, lgvars, wsvars>>

\* variant: a variable met again is leveled again
LyStepRelevel ==
    /\ ly_pc = "bfs" /\ ly_queue # <<>>
    /\ LET nid == Head(ly_queue)[1]
           d == Head(ly_queue)[2]
       IN  /\ ly_level' = (nid :> d) @@ ly_level
           /\ ly_queue' = Tail(ly_queue)
                           \o [i \in DOMAIN TargetsFrom(ly_arcs, nid) |->
                                  <<TargetsFrom(ly_arcs, nid)[i], d + 1>>]
    /\ UNCHANGED <<ly_pc, ly_edges, ly_arcs, ly_ids, ppvars, plvars, fzvars, lgvars, wsvars>>

\* lines 759-765, one pass of `while q`
LyStep ==
    /\ ly_pc = "bfs" /\ ly_queue # <<>>
    /\ LET nid == Head(ly_queue)[1]
           d == Head(ly_queue)[2]
       IN  IF nid \in DOMAIN ly_level
           THEN /\ ly_queue' = Tail(ly_queue)
                /\ UNCHANGED ly_level
           ELSE /\ ly_level' = (nid :> d) @@ ly_level
                /\ ly_queue' = Tail(ly_queue)
                                \o [i \in DOMAIN TargetsFrom(ly_arcs, nid) |->
                                       <<TargetsFrom(ly_arcs, nid)[i], d + 1>>]
    /\ UNCHANGED <<ly_pc, ly_edges, ly_arcs, ly_ids, ppvars, plvars, fzvars, lgvars, wsvars>>

\* `while q` ends; lines 767-795 place the leveled variables
LyPlace ==
    /\ ly_pc = "bfs" /\ ly_queue = <<>>
    /\ ly_pc' = "done"
    /\ UNCHANGED <<ly_edges, ly_arcs, ly_ids, ly_queue, ly_level, ppvars, plvars, fzvars, lgvars, wsvars>>

NextLayout == LyCollect \/ LyStep \/ LyPlace

NextTerminates == NextPart \/ NextLayout

\* the compilation is one sequential program: a step that can be taken is taken
SpecTerminates == InitTerminates /\ [][NextTerminates]_vars /\ WF_vars(NextTerminates)

----------------------------------------------------------------------------
\* The evidence web service, flask_app/bn-ws.py (SpecWs): the requests
\* /reload, /set_evidence, /report and /api/evidence, each served whole.  The
\* inference engine is outside the program: a network holds, per node, its
\* outcome count and at most one evidence state; set_evidence raises for a
\* node that is missing or a state out of range, read_file raises for a file
\* that cannot be read, and a network just created or just read holds no
\* evidence.

\* the networks of the model files: nid -> outcome count (a node of five
\* outcomes carries the five fuzzy state names)
FileNodes(file) ==
    CASE file = "model" -> ("a" :> 2 @@ "f" :> 5)
      [] file = "other" -> ("a" :> 2 @@ "g" :> 3)
      [] OTHER -> <<>>

WsFiles == {"model", "other", "missing"}

WsEmpty == [nodes |-> <<>>, ev |-> <<>>]

\* Network(); read_file(file)
WsLoaded(file) == [nodes |-> FileNodes(file), ev |-> <<>>]

WsCanSet(n, nid, state) == nid \in DOMAIN n.nodes /\ 0 <= state /\ state < n.nodes[nid]

\* net.set_evidence(nid, state) that does not raise
WsSet(n, nid, state) == [n EXCEPT !.ev = (nid :> state) @@ @]

\* analyze_node_structure, lines 150-165
AnalyzeNodeStructure(n) ==
    [nid \in DOMAIN n.nodes |->
        [type |-> IF n.nodes[nid] = 5 THEN "fuzzy"
                  ELSE IF n.nodes[nid] = 2 THEN "binary" ELSE "other",
         states |-> n.nodes[nid]]]

\* node_info.get(nid, {"type": "other"})
InfoOf(info, nid) ==
    IF nid \in DOMAIN info THEN info[nid] ELSE [type |-> "other", states |-> 0]

\* a value of a request: a JSON boolean, a JSON number or a string
PyBool(b) == [t |-> "bool", i |-> IF b THEN 1 ELSE 0, s |-> ""]
PyInt(i) == [t |-> "int", i |-> i, s |-> ""]
PyStr(str) == [t |-> "str", i |-> 0, s |-> str]

\* int(v) of a form field: the number, or -1 where int() raises ValueError
FormInt(v) ==
    CASE v = "0" -> 0 [] v = "1" -> 1 [] v = "4" -> 4 [] v = "7" -> 7 [] OTHER -> -1

FormValues == {"", "0", "1", "4", "7", "x"}
WsForms == [{"a", "f"} -> FormValues]

\* set_evidence, lines 446-484: whether the field of nid enters `ev`
FormEntryValid(info, form, nid) ==
    LET v == IF nid \in DOMAIN form THEN form[nid] ELSE ""
        state_index == FormInt(v)
        inf == InfoOf(info, nid)
    IN  /\ v # ""
        /\ state_index >= 0
        /\ \/ inf.type = "fuzzy" /\ state_index <= 4
           \/ inf.type = "binary" /\ state_index <= 1
           \/ inf.type = "other" /\ state_index < inf.states

\* set_evidence, lines 497-523: the evidence of `ev` that reaches the network
RECURSIVE WsSetAll(_, _, _)
WsSetAll(n, ev, todo) ==
    IF todo = {} THEN n
    ELSE LET nid == CHOOSE x \in todo : TRUE
         IN  WsSetAll(IF WsCanSet(n, nid, ev[nid].i) THEN WsSet(n, nid, ev[nid].i) ELSE n,
                      ev, todo \ {nid})

\* FUZZY_LINGUISTIC_MAP (lines 40-52) and parse_linguistic_input (246-256):
\* the state, or -1 for None
ParseLinguisticInput(value) ==
    IF value.t \in {"int", "bool"} THEN value.i
    ELSE CASE value.s = "very_low" -> 0
           [] value.s = "high" -> 3
           [] value.s = "true" -> 1
           [] OTHER -> -1

\* find_node_by_partial_name, lines 258-283, for keys that are a node id or
\* part of none: the id, or "" for None
FindNodeByPartialName(info, key) == IF key \in DOMAIN info THEN key ELSE ""

\* report, lines 561-596, for one item of the JSON object
ReportItem(n, info, cur, key, value) ==
    LET node_id == FindNodeByPartialName(info, key)
        evidence_state == ParseLinguisticInput(value)
        inf == InfoOf(info, node_id)
    IN  IF node_id = "" THEN [net |-> n, cur |-> cur]
        ELSE IF value.t = "str" /\ evidence_state = -1 THEN [net |-> n, cur |-> cur]
        ELSE IF inf.type = "fuzzy" /\ ~(0 <= evidence_state /\ evidence_state <= 4)
        THEN [net |-> n, cur |-> cur]
        ELSE IF inf.type = "binary" /\ evidence_state \notin {0, 1}
        THEN [net |-> n, cur |-> cur]
        ELSE IF ~WsCanSet(n, node_id, evidence_state) THEN [net |-> n, cur |-> cur]
        ELSE [net |-> WsSet(n, node_id, evidence_state),
              cur |-> (node_id :> PyInt(evidence_state)) @@ cur]

\* api_evidence, lines 765-775, for one item of the JSON object
ApiItem(n, info, cur, nid, value) ==
    IF nid \notin DOMAIN info THEN [net |-> n, cur |-> cur]
    ELSE IF value.t = "bool"
    THEN (IF WsCanSet(n, nid, value.i)
          THEN [net |-> WsSet(n, nid, value.i), cur |-> (nid :> value) @@ cur]
          ELSE [net |-> n, cur |-> cur])
    ELSE IF value.t = "int" /\ value.i \in 0..4
    THEN (IF WsCanSet(n, nid, value.i)
          THEN [net |-> WsSet(n, nid, value.i), cur |-> (nid :> value) @@ cur]
          ELSE [net |-> n, cur |-> cur])
    ELSE [net |-> n, cur |-> cur]

\* report, line 561: the items of the JSON object, in order
RECURSIVE ReportItems(_, _, _, _)
ReportItems(n, info, cur, data) ==
    IF data = <<>> THEN [net |-> n, cur |-> cur]
    ELSE LET r == ReportItem(n, info, cur, Head(data)[1], Head(data)[2])
         IN  ReportItems(r.net, info, r.cur, Tail(data))

\* api_evidence, line 765: the items of the JSON object, in order
RECURSIVE ApiItems(_, _, _, _)
ApiItems(n, info, cur, data) ==
    IF data = <<>> THEN [net |-> n, cur |-> cur]
    ELSE LET r == ApiItem(n, info, cur, Head(data)[1], Head(data)[2])
         IN  ApiItems(r.net, info, r.cur, Tail(data))

WsKeys == {"a", "f", "zz"}
ReportValues == {PyStr("high"), PyStr("true"), PyStr("bogus"), PyInt(7), PyInt(0)}
ApiValues == {PyBool(TRUE), PyInt(4), PyInt(7), PyStr("high")}

\* JSON objects of one or two items
WsData(values) ==
    {<< <<k, v>> >> : k \in WsKeys, v \in values}
    \cup {<< <<"a", v>>, <<"f", w>> >> : v \in values, w \in values}

\* the module is loaded (lines 25-33) and the service started (lines 820-830)
InitWs ==
    /\ ws_pc = "serving"
    /\ ws_file_exists \in BOOLEAN
    /\ ws_net = IF ws_file_exists THEN WsLoaded("model") ELSE WsEmpty
    /\ ws_node_info = AnalyzeNodeStructure(ws_net)
    /\ ws_current = <<>>
    /\ ws_last = [req |-> "start", ok |-> TRUE, form |-> <<>>]
    /\ ws_count = 0
    /\ PartOff /\ FuzzyOff /\ LogicOff /\ LayoutOff
    /\ PipelineOff /\ id_to_obj = <<>>

WsServed(req, ok, form) ==
    /\ ws_pc = "serving" /\ ws_count < MaxRequests
    /\ ws_count' = ws_count + 1
    /\ ws_last' = [req |-> req, ok |-> ok, form |-> form]
    /\ UNCHANGED <<ws_pc, ws_file_exists, ppvars, plvars, fzvars, lgvars, lyvars>>

\* reload_net, lines 408-428: `net` is replaced before the file is read
WsReload ==
    \E file \in WsFiles :
        LET readable == file # "missing" /\ (file = "model" => ws_file_exists)
        IN  /\ WsServed("reload", readable, <<>>)
            /\ IF readable
               THEN /\ ws_net' = WsLoaded(file)
                    /\ ws_current' = <<>>
                    /\ ws_node_info' = AnalyzeNodeStructure(WsLoaded(file))
               ELSE /\ ws_net' = WsEmpty
                    /\ UNCHANGED <<ws_current, ws_node_info>>

\* set_evidence, lines 430-544
WsSetEvidence ==
    \E form \in WsForms :
        LET empty == DOMAIN ws_net.nodes = {}
            n0 == IF empty /\ ws_file_exists THEN WsLoaded("model") ELSE ws_net
            info == IF empty /\ ws_file_exists THEN AnalyzeNodeStructure(n0)
                    ELSE ws_node_info
            valid == {nid \in DOMAIN n0.nodes : FormEntryValid(info, form, nid)}
            ev == [nid \in valid |-> PyInt(FormInt(form[nid]))]
        IN  IF empty /\ ~ws_file_exists
            THEN /\ WsServed("set_evidence", FALSE, form)
                 /\ UNCHANGED <<ws_net, ws_node_info, ws_current>>
            ELSE /\ WsServed("set_evidence", TRUE, form)
                 /\ ws_node_info' = info
                 /\ ws_current' = ev
                 /\ ws_net' = WsSetAll([n0 EXCEPT !.ev = <<>>], ev, valid)

\* report, lines 552-605
WsReport ==
    \E data \in WsData(ReportValues) :
        LET r == ReportItems(ws_net, ws_node_info, ws_current, data)
        IN  /\ WsServed("report", TRUE, <<>>)
            /\ ws_net' = r.net
            /\ ws_current' = r.cur
            /\ UNCHANGED ws_node_info

\* api_evidence, lines 758-782
WsApiEvidence ==
    \E data \in WsData(ApiValues) :
        LET r == ApiItems(ws_net, ws_node_info, ws_current, data)
        IN  /\ WsServed("api_evidence", TRUE, <<>>)
            /\ ws_net' = r.net
            /\ ws_current' = r.cur
            /\ UNCHANGED ws_node_info

NextWs == WsReload \/ WsSetEvidence \/ WsReport \/ WsApiEvidence

SpecWs == InitWs /\ [][NextWs]_vars

----------------------------------------------------------------------------
C3_StopsAtMax ==
    pp_pc = "done" =>
        /\ Len(pp_groups) <= pp_max
        /\ Len(pp_groups) = Min2(Len(pp_chunks), pp_max)
        /\ Len(pp_chunks) <= pp_max => pp_groups = pp_chunks

C3_MergesTwoSmallest ==
    (pp_pc = "merge" /\ pp_groups' # pp_groups) =>
        /\ Len(pp_groups) > pp_max
        /\ Len(pp_groups') = Len(pp_groups) - 1
        /\ \E i, j \in DOMAIN pp_groups :
              /\ i # j
              /\ pp_groups'[Len(pp_groups')] = pp_groups[i] \o pp_groups[j]
              /\ \A k \in DOMAIN pp_groups \ {i, j} :
                    /\ Len(pp_groups[k]) >= Len(pp_groups[i])
                    /\ Len(pp_groups[k]) >= Len(pp_groups[j])

C3_GroupCountBounded == [](C3_StopsAtMax) /\ [][C3_MergesTwoSmallest]_vars

\* more chunks than max_size, merged down to max_size
C3_Witness ==
    /\ pp_pc = "done"
    /\ Len(pp_chunks) > pp_max + 1
    /\ Len(pp_groups) = pp_max

\* C4 as stated: every returned sub-group has at most max_size members.
C4_SubGroupsWithinMax ==
    pp_pc = "done" => \A g \in DOMAIN pp_groups : Len(pp_groups[g]) <= pp_max

\* C4 as amended: every chunk cut by the chunking step has at most max_size
\* members, and so has every returned sub-group when the chunking step cut at
\* most max_size chunks; a sub-group made by the merge loop is the join of
\* chunks and may be longer.
C4_ChunksWithinMax ==
    /\ pp_pc \in {"merge", "done"} =>
          \A c \in DOMAIN pp_chunks : Len(pp_chunks[c]) \in 1..pp_max
    /\ (pp_pc = "done" /\ Len(pp_chunks) <= pp_max) =>
          \A g \in DOMAIN pp_groups : Len(pp_groups[g]) <= pp_max

\* a bucket longer than max_size, cut into chunks that needed no merge
C4_Witness ==
    /\ pp_pc = "done"
    /\ Len(pp_buckets) = 1 /\ Len(pp_parents) > pp_max
    /\ Len(pp_chunks) <= pp_max
    /\ \E g \in DOMAIN pp_groups : Len(pp_groups[g]) = pp_max

\* ---------------------------------------------------------------------------
\* Recommendation engine (C5, C6)

Recommended == pc \notin {"off", "process", "recommend"}

EdgeEnds == {in_edges[k][1] : k \in DOMAIN in_edges} \cup {in_edges[k][2] : k \in DOMAIN in_edges}

\* the numbers of extracted edges that end and start at n
EdgesInto(n) == Cardinality({k \in DOMAIN in_edges : in_edges[k][2] = n})
EdgesOutOf(n) == Cardinality({k \in DOMAIN in_edges : in_edges[k][1] = n})

RecsFor(n) == {k \in DOMAIN recommendations : recommendations[k].node_id = n}

\* the number of messages of the given templates in recommendation k
Actions(k, templates) ==
    Cardinality({m \in DOMAIN recommendations[k].recommendations :
                    recommendations[k].recommendations[m].t \in templates})

HasAction(n, t) == \E k \in RecsFor(n) : Actions(k, {t}) > 0

\* C5: for every node that is an end of an extracted edge, a Partition
\* message is emitted exactly when at least 3 extracted edges end at the node
\* and a Divorce message exactly when at least 3 start at it; neither depends
\* on the other, and a node has at most one recommendation, which carries
\* both messages when both hold.
C5_TriggersMatchCounts ==
    Recommended =>
        \A n \in EdgeEnds :
            /\ Cardinality(RecsFor(n)) <= 1
            /\ HasAction(n, "partition") <=> EdgesInto(n) >= 3
            /\ HasAction(n, "divorce") <=> EdgesOutOf(n) >= 3
            /\ \A k \in RecsFor(n) :
                  /\ Actions(k, {"partition"}) <= 1 /\ Actions(k, {"divorce"}) <= 1
                  /\ recommendations[k].num_parents = EdgesInto(n)
                  /\ recommendations[k].num_children = EdgesOutOf(n)

\* a node with three parents and three children: both messages on its one
\* recommendation, next to a node with three parents only
C5_Witness ==
    /\ Recommended
    /\ \E n \in EdgeEnds :
          /\ EdgesInto(n) >= 3 /\ EdgesOutOf(n) >= 3
          /\ \E k \in RecsFor(n) : Actions(k, {"partition"}) = 1 /\ Actions(k, {"divorce"}) = 1
    /\ \E n \in EdgeEnds : EdgesInto(n) < 3 /\ EdgesOutOf(n) < 3 /\ RecsFor(n) = {}

LogicTemplates == {"and", "or", "unknown"}

LogicTemplateOf(kind) ==
    IF kind = "AND" THEN "and" ELSE IF kind = "OR" THEN "or" ELSE "unknown"

\* the logic classification of condition/operator node n is right: one
\* recommendation, with one logic message, the one of the node's kind
ClassifiedOnce(n) ==
    /\ Cardinality(RecsFor(n)) = 1
    /\ \A k \in RecsFor(n) :
          /\ Actions(k, LogicTemplates) = 1
          /\ Actions(k, {LogicTemplateOf(condition_nodes[n])}) = 1
          /\ EdgesInto(n) >= 3 => Actions(k, {"partition"}) = 1
          /\ EdgesOutOf(n) >= 3 => Actions(k, {"divorce"}) = 1

\* C6 as stated: every recognised condition/operator node gets exactly one
\* logic classification in its recommendation, whatever its parent and child
\* counts.
C6_EveryConditionClassified ==
    Recommended => \A n \in DOMAIN condition_nodes : ClassifiedOnce(n)

\* C6 as amended: every recognised condition/operator node that is an end of
\* at least one extracted edge gets exactly one logic classification (AND, OR,
\* or Unknown for any other kind) in its single recommendation, also with
\* fewer than 3 parents, next to the Partition and Divorce messages when
\* those triggers hold; a condition/operator node that no edge touches gets no
\* recommendation at all.
C6_ConnectedConditionClassified ==
    Recommended =>
        \A n \in DOMAIN condition_nodes :
            IF n \in EdgeEnds THEN ClassifiedOnce(n) ELSE RecsFor(n) = {}

\* an operator with one parent and three children: classified, with Divorce
C6_Witness ==
    /\ Recommended
    /\ \E n \in DOMAIN condition_nodes :
          /\ EdgesInto(n) \in 1..2 /\ EdgesOutOf(n) >= 3
          /\ \E k \in RecsFor(n) : Actions(k, LogicTemplates) = 1 /\ Actions(k, {"divorce"}) = 1

\* ---------------------------------------------------------------------------
\* The synthesized tables (C1, C7 - C10)

Built == pc = "done"

CptEvents == {k \in DOMAIN net.events : net.events[k][1] = "cpt"}

\* the variables that hold a table the synthesizer assigned
Assigned == {net.events[k][2] : k \in CptEvents} \cap net.nodes

IsProbabilityVector(row) ==
    /\ row.d > 0
    /\ \A i \in DOMAIN row.p : row.p[i] >= 0
    /\ SumSeq(row.p) = row.d

CptNodes == {id \in net.nodes : net.type[id] = "CPT"}

ParentCards(id) == CardsOf(net, net.parents[id])

\* C1: every row of every table the synthesizer assigned (AND operator,
\* divorce child, tactic node with or without parents) is a probability
\* vector, in every state of the build and whatever the states of the
\* parents; so is every row of the default table of each variable, the table
\* the fallback of the CPT policy would assign to it.
C1_RowsAreProbabilityVectors ==
    /\ \A id \in Assigned :
          net.type[id] = "CPT" =>
              \A r \in DOMAIN net.def[id] :
                  /\ IsProbabilityVector(net.def[id][r])
                  /\ Len(net.def[id][r].p) = net.card[id]
    /\ \A id \in CptNodes :
          LET table == DefaultTable(ParentCards(id), net.card[id])
          IN  \A r \in DOMAIN table : IsProbabilityVector(table[r])

\* a finished model with an assigned 5-state table over 2-state and 5-state
\* parents and an assigned 2-state table
C1_Witness ==
    /\ Built
    /\ \E id \in Assigned :
          /\ net.card[id] = 5
          /\ {2, 5} \subseteq Range(ParentCards(id))
    /\ \E id \in Assigned : net.card[id] = 2 /\ net.parents[id] # <<>>

\* the state of parent i in row r (counted from 0) of a table over parents
\* of cardinalities cards, the first parent the least significant digit
Digit(r, cards, i) == (r \div Product(SubSeq(cards, 1, i - 1))) % cards[i]

\* the least activation, in quarters, of the parents in row r
MinQuarters(r, cards) ==
    CHOOSE m \in 0..4 :
        /\ \A i \in DOMAIN cards : m <= Quarters(Digit(r, cards, i), cards[i])
        /\ \/ \E i \in DOMAIN cards : m = Quarters(Digit(r, cards, i), cards[i])
           \/ cards = <<>> /\ m = 4

AndOperators ==
    {Safe(logic_groups[i].node_id) :
        i \in {j \in DOMAIN logic_groups : logic_groups[j].logic = "AND"}}

\* C7: in the finished model every AND operator variable has one row per
\* combination of its parents' states, with P(true) the least normalized
\* activation of the parents (binary: 0 or 1; 5-state: index / 4) and
\* P(false) = 1 - P(true).
C7_AndTableIsMin ==
    Built =>
        \A op \in AndOperators \cap net.nodes :
            LET cards == ParentCards(op)
                table == net.def[op]
            IN  /\ Len(table) = Product(cards)
                /\ \A r \in DOMAIN table :
                      /\ Len(table[r].p) = 2
                      /\ 4 * table[r].p[2] = MinQuarters(r - 1, cards) * table[r].d
                      /\ table[r].p[1] + table[r].p[2] = table[r].d

\* a / b < c / d for naturals a, c and positive b, d, by continued fractions
RECURSIVE FracLess(_, _, _, _)
FracLess(a, b, c, d) ==
    LET qa == a \div b
        qc == c \div d
        ra == a % b
        rc == c % d
    IN  IF qa # qc THEN qa < qc
        ELSE IF rc = 0 THEN FALSE
        ELSE IF ra = 0 THEN TRUE
        ELSE FracLess(d, rc, b, ra)

Hubs == {Safe(DivId(divorce_groups[i].node_id)) : i \in DOMAIN divorce_groups} \cap net.nodes

HubPosition(c, h) == CHOOSE i \in DOMAIN net.parents[c] : net.parents[c][i] = h

\* C8: in the finished model, for every divorce hub and every child wired to
\* it, and for every combination of states of the child's other parents, the
\* child's probability of its lowest state is strictly greater under
\* hub = false than under hub = true.
C8_HubFalseFavoursLow ==
    Built =>
        \A h \in Hubs : \A c \in CptNodes :
            h \in Range(net.parents[c]) =>
                LET cards == ParentCards(c)
                    i == HubPosition(c, h)
                    stride == Product(SubSeq(cards, 1, i - 1))
                    table == net.def[c]
                IN  \A r \in DOMAIN table :
                        Digit(r - 1, cards, i) = 0 =>
                            FracLess(table[r + stride].p[1], table[r + stride].d,
                                     table[r].p[1], table[r].d)

PhaseOrder ==
    << "CreateVariables", "WirePartition", "WireLogic", "WireDivorce",
       "WireRemainingEdges", "ComputeAllCPTs", "Layout" >>

\* C9: the phases of build run once each in the stated order, no arc into a
\* variable is added after a table was computed for it, and in the finished
\* model every table was computed for the parents the variable has.
C9_TablesAfterLastArc ==
    /\ Len(log) <= Len(PhaseOrder) /\ log = SubSeq(PhaseOrder, 1, Len(log))
    /\ \A k \in CptEvents : \A l \in DOMAIN net.events :
          ~(k < l /\ net.events[l][1] = "arc" /\ net.events[l][3] = net.events[k][2])
    /\ Built =>
          \A k \in CptEvents :
              net.events[k][2] \in net.nodes =>
                  net.events[k][3] = net.parents[net.events[k][2]]

\* the tuples of parent states the rows of a table over cards stand for
TuplesOf(cards) == {[i \in DOMAIN cards |-> Digit(r, cards, i)] : r \in 0..(Product(cards) - 1)}

\* C10: every table a generator computes is accepted as the variable's
\* table: it has one row per element of the product of the parents'
\* cardinalities in arc order, and each row is as long as the variable's own
\* cardinality; row r stands for the parent states (r mod c1, (r div c1) mod
\* c2, ...), which is how every generator decodes it, and rows and tuples of
\* parent states correspond one to one.
C10_OneRowPerParentTuple ==
    /\ \A k \in DOMAIN net.events : net.events[k][1] # "refused"
    /\ \A id \in Assigned :
          net.type[id] = "CPT" =>
              LET cards == ParentCards(id)
              IN  /\ Len(net.def[id]) = Product(cards)
                  /\ \A r \in DOMAIN net.def[id] : Len(net.def[id][r].p) = net.card[id]
                  /\ Cardinality(TuplesOf(cards)) = Product(cards)
                  /\ \A r \in 0..(Product(cards) - 1) :
                        DecodeRow(r, cards) = [i \in DOMAIN cards |-> Digit(r, cards, i)]

\* ---------------------------------------------------------------------------
\* The finished model and the failure policy (C11 - C15)

\* C11: the finished model holds one variable for every id of used_ids, and
\* the variable has 5 states when the node carries a tactic_id and 2 states
\* when it carries none, logic operators included.
C11_OneVariablePerUsedId ==
    Built =>
        \A id \in used_ids :
            /\ Safe(id) \in net.nodes
            /\ Cardinality({u \in used_ids : Safe(u) = Safe(id)}) = 1
            /\ net.card[Safe(id)] = (IF id_to_obj[id].tactic_id # "" THEN 5 ELSE 2)

ArcsOf(n) == {<<p, c>> \in n.nodes \X n.nodes : p \in Range(n.parents[c])}

\* the nodes of the graph that get a recommendation
WithMessages ==
    {n \in all_nodes : NodeRecs(parent_map, child_map, condition_nodes, n) # <<>>}

\* two rows give every state the same probability
SameRow(a, b) ==
    /\ Len(a.p) = Len(b.p)
    /\ \A i \in DOMAIN a.p :
          ~FracLess(a.p[i], a.d, b.p[i], b.d) /\ ~FracLess(b.p[i], b.d, a.p[i], a.d)

\* the row of the table of id in n that stands for the parent states row r of
\* its table in m stands for (the parents may be listed in another order)
RowFor(m, r, n, id) ==
    CHOOSE q \in 0..(Len(n.def[id]) - 1) :
        \A i \in DOMAIN m.parents[id], j \in DOMAIN n.parents[id] :
            m.parents[id][i] = n.parents[id][j] =>
                Digit(r, CardsOf(m, m.parents[id]), i) = Digit(q, CardsOf(n, n.parents[id]), j)

\* id has the same conditional distribution in m and in n
SameTable(m, n, id) ==
    /\ m.type[id] = n.type[id] /\ m.card[id] = n.card[id]
    /\ Range(m.parents[id]) = Range(n.parents[id])
    /\ Len(m.def[id]) = Len(n.def[id])
    /\ \A r \in 0..(Len(m.def[id]) - 1) :
          SameRow(m.def[id][r + 1], n.def[id][RowFor(m, r, n, id) + 1])

\* C12: the finished model does not depend on the order the node sets are
\* iterated in: a second compilation of the same graph, with the
\* recommendation list (and so the group lists) in any other order, finishes
\* with the same variables, the same arcs and, for every variable, the same
\* conditional distribution over the same parents.
C12_SameModelWhateverOrder ==
    Built =>
        \A order \in Orders(WithMessages) :
            LET other == BuildFrom(RecsInOrder(parent_map, child_map, condition_nodes, order),
                                   sim_output)
            IN  /\ ~other.exc
                /\ other.nodes = net.nodes
                /\ ArcsOf(other) = ArcsOf(net)
                /\ \A id \in net.nodes : SameTable(net, other, id)

\* C13: no failure of add_arc (missing end, arc present, cycle) and no
\* refused table aborts build in any phase: build stops with an exception
\* only on a graph without nodes.
C13_NoFailureAborts ==
    pc = "aborted" => used_ids = {}

\* C14: a graph that yields no node (used_ids is empty) is never compiled
\* into a model: build does not return, the exception of the layout step
\* leaves it and reaches the caller.
C14_EmptyGraphAborts ==
    /\ Built => used_ids # {}
    /\ used_ids = {} /\ pc = "aborted" => net.exc

\* a graph without edges went through every phase and the layout step raised
C14_Witness ==
    /\ pc = "aborted" /\ used_ids = {} /\ in_edges = <<>>
    /\ net.exc /\ net.nodes = {}
    /\ log = <<"CreateVariables", "WirePartition", "WireLogic", "WireDivorce",
               "WireRemainingEdges", "ComputeAllCPTs", "Layout">>

\* the nodes whose recommendation carries the Partition message and a logic
\* classification
PartitionAndLogic ==
    {n \in all_nodes :
        \E k \in RecsFor(n) : Actions(k, {"partition"}) > 0 /\ Actions(k, LogicTemplates) > 0}

GateIds(n) == {Safe(GrpId(n, idx)) : idx \in 1..MaxParents}

\* C15: a node recommended for Partition that also has a logic classification
\* is not partitioned: no gate variable of it exists in any state of the
\* build, and in the finished model its parents are the parents it has in the
\* graph, each wired to it directly by its logic group.
C15_LogicNodeNotPartitioned ==
    Recommended =>
        \A n \in PartitionAndLogic :
            /\ GateIds(n) \cap net.nodes = {}
            /\ pc # "group" => \E i \in DOMAIN logic_groups : logic_groups[i].node_id = n
            /\ Built =>
                  /\ Range(net.parents[Safe(n)]) = {Safe(p) : p \in Range(Get(parent_map, n))}
                  /\ \A p \in Range(Get(parent_map, n)) :
                        \E k \in DOMAIN net.events : net.events[k] = <<"arc", Safe(p), Safe(n)>>

\* a finished model of a graph where an operator has three parents, next to
\* an action with three parents that did get a gate
C15_Witness ==
    /\ Built
    /\ \E n \in PartitionAndLogic : Len(Get(parent_map, n)) >= 3
    /\ \E i \in DOMAIN partition_groups :
          /\ partition_groups[i].node_id \notin PartitionAndLogic
          /\ GateIds(partition_groups[i].node_id) \cap net.nodes # {}

\* ---------------------------------------------------------------------------
\* The membership distribution (C16, C17)

FzReturned == fz_pc = "returned"

Uniform5 == Row(<<1, 1, 1, 1, 1>>, 5)

\* C16: whatever the tactic id and the parameters, the call returns a list
\* of 5 entries, none negative, that sum to 1, on the graded, the bucket and
\* the uniform return path alike, ordered from VeryLow to VeryHigh (a low
\* output value puts no less weight on the first entry than on the last, a
\* high one the reverse); and every supplied parameter the engine is given is
\* the supplied value clamped to [0, 100].
C16_MembershipIsDistribution ==
    /\ FzReturned =>
          /\ Len(fz_result.p) = 5
          /\ IsProbabilityVector(fz_result)
          /\ (fz_engine # <<>> /\ fz_engine.compute = "ok" /\ fz_engine.failed = {}) =>
                /\ fz_engine.value <= 20 => fz_result.p[1] >= fz_result.p[5]
                /\ fz_engine.value > 80 => fz_result.p[5] > fz_result.p[1]
    /\ \A name \in DOMAIN fz_input :
          /\ fz_input[name] \in 0..100
          /\ name \in DOMAIN fz_params =>
                fz_input[name] = (IF fz_params[name] < 0 THEN 0
                                  ELSE IF fz_params[name] > 100 THEN 100
                                  ELSE fz_params[name])

\* a call that returned the graded membership of a value in two terms, with
\* one parameter supplied above 100 and one below 0
C16_Witness ==
    /\ FzReturned
    /\ fz_engine # <<>> /\ fz_engine.compute = "ok" /\ fz_engine.output_var
    /\ fz_engine.failed = {} /\ fz_engine.value = 83
    /\ fz_result.p[4] > 0 /\ fz_result.p[5] > 0
    /\ \E a, b \in DOMAIN fz_params \cap DOMAIN fz_input :
          fz_params[a] > 100 /\ fz_input[a] = 100 /\ fz_params[b] < 0 /\ fz_input[b] = 0

\* the lists of _compute_membership_from_value
BucketVectors == {BucketMembership(v) : v \in {20, 40, 60, 80, 100}}

\* the rule evaluation of the call failed: the tactic has no usable system,
\* compute() raised, or the output terms could not be read
FzEvaluationFailed ==
    \/ fz_system = "none"
    \/ fz_engine # <<>> /\ (fz_engine.compute = "raises" \/ ~fz_engine.output_var)

\* C17: when the rule evaluation fails for a recognized tactic the call
\* returns one of the five bucket lists, the one of the bucket the output
\* value falls in when there is a value; the uniform list is returned for an
\* unrecognized tactic only.  (The call has no raising exit: every exit of
\* FzLookup, FzCompute and FzTerms returns a list.)
C17_FailureGivesBucket ==
    FzReturned =>
        /\ (fz_tactic \in KnownTactics /\ FzEvaluationFailed) =>
              /\ fz_result \in BucketVectors
              /\ (fz_engine # <<>> /\ fz_engine.compute = "ok") =>
                    fz_result = BucketMembership(fz_engine.value)
        /\ fz_result = Uniform5 => fz_tactic \notin KnownTactics

\* ---------------------------------------------------------------------------
\* The CPT policy of the finished model (C18 - C20)

\* the variables of nodes without a tactic that no wiring phase gave a table
PlainUnassigned ==
    {Safe(id) : id \in {u \in used_ids : id_to_obj[u].tactic_id = ""}}
        \cap (CptNodes \ Assigned)

\* row q stands for parent states that are, parent by parent, at least
\* those of row r
RowAtLeast(cards, q, r) == \A i \in DOMAIN cards : Digit(q, cards, i) >= Digit(r, cards, i)

\* C18: in the finished model a variable of a node without a tactic that
\* group wiring gave no table has the default table: (0.7, 0.3) without
\* parents, and with parents, row by row, P(true) = clamp(0.2 + 0.7 * avg,
\* 0.1, 0.9) with avg the mean of the parents' normalized states; P(true)
\* does not decrease when a parent's state rises.
C18_DefaultTableForPlainNodes ==
    Built =>
        \A id \in PlainUnassigned :
            LET cards == ParentCards(id)
                table == DefaultTable(cards, net.card[id])
            IN  /\ Len(net.def[id]) = Len(table)
                /\ \A r \in DOMAIN table : SameRow(net.def[id][r], table[r])
                /\ cards = <<>> => SameRow(net.def[id][1], Row(<<7, 3>>, 10))
                /\ \A q, r \in 0..(Len(net.def[id]) - 1) :
                      RowAtLeast(cards, q, r) =>
                          ~FracLess(net.def[id][q + 1].p[2], net.def[id][q + 1].d,
                                    net.def[id][r + 1].p[2], net.def[id][r + 1].d)

\* the used nodes whose tactic_id is not a recognized tactic code
UnrecognizedTactic ==
    {u \in used_ids : id_to_obj[u].tactic_id # "" /\ id_to_obj[u].tactic_id \notin KnownTactics}

\* C19: a node whose tactic_id is not a recognized code is handled as a node
\* without a tactic: creating its variable does not fail, and in the
\* finished model it is not among the tactic nodes, its variable has 2
\* states and holds a table of 2-entry rows, as the policy for non-tactic
\* nodes gives it, never the 5-entry rows of the tactic policy.
C19_UnrecognizedTacticIsNoTactic ==
    /\ pc = "aborted" /\ log = <<"CreateVariables">> => UnrecognizedTactic = {}
    /\ Built =>
          \A u \in UnrecognizedTactic :
              /\ u \notin DOMAIN TacticNodes(id_to_obj, used_ids)
              /\ Safe(u) \in net.nodes
              /\ net.card[Safe(u)] = 2
              /\ \A r \in DOMAIN net.def[Safe(u)] : Len(net.def[Safe(u)][r].p) = 2

\* the assignments of a table to id, in the order they were made
AssignmentsTo(id) == {k \in CptEvents : net.events[k][2] = id}

\* C20: in one build no variable is assigned a table twice: a table a wiring
\* phase set (AND operator, divorce child) is overwritten neither by a later
\* divorce hub nor by ComputeAllCPTs, which assigns only to variables that
\* have none yet.
C20_TableAssignedAtMostOnce ==
    \A id \in net.nodes : Cardinality(AssignmentsTo(id)) <= 1

\* ---------------------------------------------------------------------------
\* The arcs of the finished model (C21 - C25, C27)

LogicIds == {logic_groups[i].node_id : i \in DOMAIN logic_groups}

\* the partition groups build wires: those of nodes no logic group claims
WiredPartitionGroups == {i \in DOMAIN partition_groups : partition_groups[i].node_id \notin LogicIds}

GatesWired ==
    \A i \in WiredPartitionGroups :
        LET pg == partition_groups[i]
        IN  \A idx \in DOMAIN pg.groups :
                LET gate == Safe(GrpId(pg.node_id, idx))
                IN  /\ gate \in net.nodes
                    /\ Cardinality({j \in DOMAIN pg.groups : Safe(GrpId(pg.node_id, j)) = gate}) = 1
                    /\ \A k \in DOMAIN pg.groups[idx] :
                          Safe(pg.groups[idx][k]) \in net.nodes
                          /\ <<Safe(pg.groups[idx][k]), gate>> \in ArcsOf(net)
                    /\ Safe(pg.node_id) \in net.nodes
                    /\ <<gate, Safe(pg.node_id)>> \in ArcsOf(net)

\* no node was deleted after an arc had been attached to it
NoArcLost ==
    \A k \in DOMAIN net.events :
        net.events[k][1] = "delete" =>
            \A j \in 1..(k - 1) :
                net.events[j][1] = "arc" =>
                    net.events[k][2] \notin {net.events[j][2], net.events[j][3]}

\* C21: in the finished model every partition group of a node without a
\* logic group has one gate variable per sub-group, with an arc from every
\* member of the sub-group into the gate and an arc from the gate into the
\* node; and no arc the wiring added is removed later: a node variable is
\* never deleted after an arc was attached to it.
C21_PartitionGatesWired ==
    /\ Built => GatesWired
    /\ NoArcLost

\* the original edges WireRemainingEdges is to add as direct arcs: both ends
\* are variables, no group covers the edge, the target is no divorce child
DirectEdges ==
    {e \in Range(graph_edges) :
        /\ Safe(e[1]) \in net.nodes /\ Safe(e[2]) \in net.nodes
        /\ e \notin Covered(partition_groups, logic_groups, divorce_groups)
        /\ e[2] \notin DivorceChildren(divorce_groups, partition_groups)}

\* an arc the network refuses because it would close a cycle
Cyclic(n, a) == a[1] = a[2] \/ a[2] \in Ancestors(n, a[1])

\* one step of the build, seen from the remaining-edge phase
RemainingEdgesStep ==
    pc = "edges" =>
        LET direct == {<<Safe(e[1]), Safe(e[2])>> : e \in DirectEdges}
        IN  /\ ArcsOf(net') \ ArcsOf(net) \subseteq direct
            /\ ArcsOf(net) \subseteq ArcsOf(net')
            /\ \A a \in direct : a \in ArcsOf(net') \/ Cyclic(net', a)
            /\ \A c \in net'.nodes : NoRepeat(net'.parents[c])

\* C22: the remaining-edge step adds the direct arc of exactly the original
\* edges whose ends both exist, that no partition, logic or divorce group
\* covers and whose target is not a divorce child: it adds no other arc,
\* removes none, and every such edge is an arc afterwards (once, also when the
\* edge is listed twice or the arc was there before) unless the arc would
\* close a cycle.
C22_RemainingEdges == [][RemainingEdgesStep]_vars

GraphVariables == {Safe(u) : u \in used_ids}

HubParents(c) == Range(net.parents[c]) \cap Hubs

\* C23: in the finished model a variable with a divorce hub among its
\* parents has no arc from a variable of an original graph node (the hub's
\* source or any other); and every node that build counts as a divorce
\* child, whose direct incoming edges the remaining-edge step is to skip,
\* has a hub among its parents.
C23_HubSupersedesDirectEdges ==
    Built =>
        /\ \A c \in net.nodes :
              HubParents(c) # {} => Range(net.parents[c]) \cap GraphVariables = {}
        /\ \A c \in DivorceChildren(divorce_groups, partition_groups) :
              Safe(c) \in net.nodes /\ HubParents(Safe(c)) # {}


\* Arc requests that add_arc refused while the remaining edges were added
\* (lines 668-671): an original edge between two variables, handed to the
\* loop, that is no arc of the finished model.
RejectedArcs ==
    {e \in DirectEdges : <<Safe(e[1]), Safe(e[2])>> \notin ArcsOf(net)}

EdgeKept(e) == Safe(e[1]) \in Ancestors(net, Safe(e[2]))

\* C24: no influence of the attack graph is dropped: in the finished model,
\* when no arc request was refused, every original edge (s,t) whose two ends
\* are variables has a directed path from s to t.
C24_NoInfluenceDropped ==
    (Built /\ RejectedArcs = {}) =>
        \A e \in Range(graph_edges) :
            (Safe(e[1]) \in net.nodes /\ Safe(e[2]) \in net.nodes) => EdgeKept(e)

\* An edge list with every repetition of a (source, target) pair removed,
\* the first occurrence kept.
RECURSIVE WithoutRepeats(_, _)
WithoutRepeats(edges, seen) ==
    IF edges = <<>> THEN <<>>
    ELSE (IF Head(edges) \in seen THEN <<>> ELSE << Head(edges) >>)
         \o WithoutRepeats(Tail(edges), seen \cup {Head(edges)})

HasRepeatedEdge == ~NoRepeat(in_edges)

\* The nodes of `recommendations`, in its order, that get a message when the
\* edges are `edges`.
RecOrderFor(edges) ==
    LET ids == [i \in DOMAIN recommendations |-> recommendations[i].node_id]
    IN  SelectSeq(ids, LAMBDA n :
            NodeRecs(ParentMapOf(edges), ChildMapOf(edges), condition_nodes, n) # <<>>)

RecsFrom(edges) ==
    RecsInOrder(ParentMapOf(edges), ChildMapOf(edges), condition_nodes, RecOrderFor(edges))

\* The wiring of build (lines 375-671) for the edge list `edges`
WiredFrom(edges) ==
    LET recs == RecsFrom(edges)
        pgs == GetPartitionGroups(recs, ParentMapOf(edges), id_to_obj, pp_max)
        dgs == GetDivorceGroups(recs, ChildMapOf(edges))
        lgs == GetLogicGroups(recs, ParentMapOf(edges))
        tn == TacticNodes(id_to_obj, AllNodesOf(edges))
        n1 == CreateAll(EmptyNet, AllNodesOf(edges), tn)
        n2 == WirePartitionGroups(n1, pgs, {lgs[i].node_id : i \in DOMAIN lgs})
        n3 == WireLogicGroups(n2, lgs)
        n4 == WireDivorceGroups(n3, dgs, Partitioned(pgs))
    IN  WireEdges(n4, edges, DivorceChildren(dgs, pgs), Covered(pgs, lgs, dgs))

\* C25: duplicate edges are de-duplicated downstream: when a (source, target)
\* pair is repeated in the edge list, the recommendations, the groups and the
\* arcs are those of the list with the repetition removed, no group lists a
\* parent or a child twice, and the build fails only where the build of the
\* list without the repetition fails.
C25_RepeatedEdgesDeduplicated ==
    HasRepeatedEdge =>
        LET d == WithoutRepeats(in_edges, {})
        IN  /\ pc \notin {"process", "recommend"} => recommendations = RecsFrom(d)
            /\ pc \notin {"process", "recommend", "group"} =>
                  /\ partition_groups =
                        GetPartitionGroups(RecsFrom(d), ParentMapOf(d), id_to_obj, pp_max)
                  /\ divorce_groups = GetDivorceGroups(RecsFrom(d), ChildMapOf(d))
                  /\ logic_groups = GetLogicGroups(RecsFrom(d), ParentMapOf(d))
                  /\ \A i \in DOMAIN partition_groups :
                        NoRepeat(Flatten(partition_groups[i].groups))
                  /\ \A i \in DOMAIN divorce_groups : NoRepeat(divorce_groups[i].children)
                  /\ \A i \in DOMAIN logic_groups : NoRepeat(logic_groups[i].members)
            /\ pc = "aborted" => WiredFrom(d).exc
            /\ Built => ArcsOf(net) = ArcsOf(WiredFrom(d))

\* the kind process_file recorded for a node of a recommendation, "" for a
\* node that is neither a condition nor an operator
KindOf(node_id) == IF node_id \in DOMAIN lg_conds THEN lg_conds[node_id] ELSE ""

GroupsOf(node_id) == {i \in DOMAIN lg_groups : lg_groups[i].node_id = node_id}

\* C26: get_logic_groups emits exactly one logic group for every
\* recommendation of a condition or operator node and none for any other;
\* its members are the node's list in parent_map, its logic is AND for the
\* kind AND and OR for the kind OR and for every other kind string.
C26_OneLogicGroupPerClassification ==
    lg_pc = "done" =>
        /\ \A i \in DOMAIN lg_groups :
              \E k \in DOMAIN lg_recs : lg_recs[k].node_id = lg_groups[i].node_id
        /\ \A k \in DOMAIN lg_recs :
              LET node_id == lg_recs[k].node_id
              IN  IF KindOf(node_id) = "" THEN GroupsOf(node_id) = {}
                  ELSE /\ Cardinality(GroupsOf(node_id)) = 1
                       /\ \A i \in GroupsOf(node_id) :
                             /\ lg_groups[i].members = Get(ParentMapOf(lg_edges), node_id)
                             /\ lg_groups[i].logic =
                                   (IF KindOf(node_id) = "AND" THEN "AND" ELSE "OR")

AllGates == UNION {GateIds(partition_groups[i].node_id) : i \in DOMAIN partition_groups}

ClaimedByPartition == Partitioned(partition_groups)

AllDivorceChildren ==
    UNION {Range(divorce_groups[i].children) : i \in DOMAIN divorce_groups}

TacticVarsWithParents ==
    {nid \in DOMAIN TacticNodes(id_to_obj, used_ids) :
        /\ Safe(nid) \in net.nodes
        /\ net.type[Safe(nid)] = "CPT"
        /\ net.parents[Safe(nid)] # <<>>}

\* the base 5-vector of a tactic node in this run
BaseOf(nid) ==
    LET tactic_id == TacticNodes(id_to_obj, used_ids)[nid]
    IN  FuzzyMembership(tactic_id, IF tactic_id \in DOMAIN sim_output THEN sim_output[tactic_id]
                                   ELSE [value |-> 50, path |-> "graded"])

\* the base vector with every entry raised to at least 0.01, renormalised
Unshifted(base) ==
    LET c == [i \in 1..5 |-> Max2(base.d, 100 * base.p[i])]
    IN  Row(c, SumSeq(c))

\* total influence of row r (counted from 0), in quarters
RowInfluence(r, cards) ==
    SumSeq([i \in DOMAIN cards |-> Quarters(Digit(r, cards, i), cards[i])])


NotMore(a, b, c, d) == ~FracLess(c, d, a, b)

\* row, against the unshifted row un, has moved mass from the other states
\* to the states `up`; the mass moved is at most 0.0315 = 0.35 * 0.09
ShiftedToward(row, un, up) ==
    LET mass(x) == SumSeq([i \in 1..5 |-> IF i \in up THEN x.p[i] ELSE 0])
    IN  /\ FracLess(mass(un), un.d, mass(row), row.d)
        /\ NotMore(mass(row), row.d, 10000 * mass(un) + 315 * un.d, 10000 * un.d)

\* C28: in the finished model the table of a tactic node with parents has
\* one row per combination of parent states; a row whose average normalized
\* parent influence is below 0.3 is the base vector shifted toward the two
\* lowest states, above 0.7 toward the two highest states, and in [0.3, 0.7]
\* it is the base vector unshifted; the shift is bounded, and every row is a
\* probability vector with every entry positive.
C28_MixedParentRows ==
    Built =>
        \A nid \in TacticVarsWithParents :
            LET cards == ParentCards(Safe(nid))
                n == Len(cards)
                table == net.def[Safe(nid)]
                un == Unshifted(BaseOf(nid))
            IN  /\ Len(table) = Product(cards)
                /\ \A r \in DOMAIN table :
                      LET T == RowInfluence(r - 1, cards)
                          row == table[r]
                      IN  /\ IsProbabilityVector(row) /\ Len(row.p) = 5
                          /\ \A i \in 1..5 : row.p[i] > 0
                          /\ 10 * T < 12 * n => ShiftedToward(row, un, {1, 2})
                          /\ 10 * T > 28 * n => ShiftedToward(row, un, {4, 5})
                          /\ (10 * T >= 12 * n /\ 10 * T <= 28 * n) => SameRow(row, un)

\* a finished model where a tactic node has a binary and a 5-state parent,
\* rows of all three kinds, and a base vector with an entry the floor raises
C28_Witness ==
    /\ Built
    /\ \E nid \in TacticVarsWithParents :
          LET cards == ParentCards(Safe(nid))
              n == Len(cards)
          IN  /\ {2, 5} \subseteq Range(cards)
              /\ \E i \in 1..5 : BaseOf(nid).p[i] = 0
              /\ \E r \in DOMAIN net.def[Safe(nid)] : 10 * RowInfluence(r - 1, cards) < 12 * n
              /\ \E r \in DOMAIN net.def[Safe(nid)] : 10 * RowInfluence(r - 1, cards) > 28 * n
              /\ \E r \in DOMAIN net.def[Safe(nid)] :
                    /\ 10 * RowInfluence(r - 1, cards) >= 12 * n
                    /\ 10 * RowInfluence(r - 1, cards) <= 28 * n

Terminated == pp_pc = "done" /\ ly_pc \in {"done", "aborted"}

\* a leveled variable keeps its level
LeveledOnce ==
    \A nid \in DOMAIN ly_level : nid \in DOMAIN ly_level' /\ ly_level'[nid] = ly_level[nid]

\* the merge loop shortens the list of groups in every pass
MergeShortens == (pp_pc = "merge" /\ pp_groups' # pp_groups) => Len(pp_groups') < Len(pp_groups)

\* C29: the compilation terminates on every input graph, cyclic or not: the
\* merge loop of partition_parents ends for every parent list and every
\* max_size >= 1, each pass leaving fewer groups, and the breadth-first
\* leveling of _layout_network ends, a variable being leveled at most once.
C29_CompilationTerminates ==
    /\ <>Terminated
    /\ [][LeveledOnce /\ MergeShortens]_vars

\* the leveling has ended on a graph with a cycle, after a partition whose
\* merge loop ran, and a variable was met again after it was leveled
C29_Witness ==
    /\ ly_pc = "done"
    /\ Len(pp_chunks) > pp_max
    /\ \E i \in DOMAIN ly_edges : ly_edges[i][1] = T1
    /\ \E i \in DOMAIN ly_arcs :
          /\ {ly_arcs[i][1], ly_arcs[i][2]} \subseteq DOMAIN ly_level
          /\ ly_level[ly_arcs[i][2]] <= ly_level[ly_arcs[i][1]]

\* current_evidence and the evidence of the network name the same nodes with
\* the same states (True and False are the states 1 and 0)
EvidenceMirrored ==
    /\ DOMAIN ws_current = DOMAIN ws_net.ev
    /\ \A nid \in DOMAIN ws_current : ws_current[nid].i = ws_net.ev[nid]

\* C30: in the evidence web service, after any sequence of /set_evidence,
\* /report, /api/evidence and /reload requests, current_evidence records
\* exactly the evidence set on the loaded network; after /set_evidence the
\* evidence is that of the form alone, and after /reload both are empty.
C30_CurrentEvidenceMirrorsNetwork ==
    ws_pc = "serving" =>
        /\ EvidenceMirrored
        /\ ws_last.req = "reload" => (ws_current = <<>> /\ ws_net.ev = <<>>)
        /\ (ws_last.req = "set_evidence" /\ ws_last.ok) =>
              DOMAIN ws_net.ev =
                  {nid \in DOMAIN ws_net.nodes :
                      FormEntryValid(ws_node_info, ws_last.form, nid)}
====
